---- MODULE Spec2Model ----
(***************************************************************************)
(* A model of the housetuya device lifecycle engine: the device table,     *)
(* the set request, the status-update routine, the TCP callbacks and the   *)
(* periodic sweep of housetuya_device.c, driven by the HTTP handler and    *)
(* the background tick of housetuya.c.                                     *)
(*                                                                         *)
(* Time is the value time(0) returns.  It starts at StartTime, late enough *)
(* that the zero-initialised statics (LastRetry, LastCall, last_sense)     *)
(* compare against it as they do against a real epoch time.                *)
(***************************************************************************)
EXTENDS Integers, Sequences, FiniteSets, TLC

\* ---------------------------------------------------------------- bounds

StartTime == 35
MaxTicks == 3
MaxPauses == 1
LongPause == 100
MaxInputs == 3
PulseLen == 7

\* ------------------------------------------------------ program constants

TUYA_CONTROL == 7
TUYA_STATUS == 8
TUYA_QUERY == 10
SetPendingDelay == 10
PulsePendingDelay == 5
RetryPeriod == 5
SensePeriod == 35
SilenceDelay == 100
KnownControl == 1

\* The devices on the network (their gwId), the product keys they announce
\* and the configuration file's device list.
DeviceIds == {"bf12"}
ProductKeys == {"keyA", "keyB"}
\* What a beacon announces: the product key, and whether the device encrypts.
Beacons == {[product |-> "keyA", encrypt |-> FALSE],
            [product |-> "keyB", encrypt |-> FALSE]}
BeaconsSecured == Beacons \cup {[product |-> "keyA", encrypt |-> TRUE]}
Config == <<[name |-> "lamp", id |-> "bf12", model |-> "keyA", key |-> ""]>>
\* A configuration that lists one device twice, the second time with a key.
ConfigTwice ==
    <<[name |-> "lamp", id |-> "bf12", model |-> "keyA", key |-> ""],
      [name |-> "lamp", id |-> "bf12", model |-> "keyB", key |-> "k16"]>>
Configs == {Config, ConfigTwice}
\* The .tuya.models array of the configuration.
ConfigModels == <<[id |-> "keyA", name |-> "plug", control |-> KnownControl]>>
AutoName(count) == <<"new_0", "new_1", "new_2", "new_3">>[count + 1]

Pulses == {0, PulseLen}
NoFrame == [code |-> 0, value |-> 0]
QueryFrame == [code |-> TUYA_QUERY, value |-> 0]
ControlFrame(state) == [code |-> TUYA_CONTROL, value |-> state]

VARIABLES
    Devices,     \* the device table: a sequence of struct DeviceMap
    Models,      \* the model registry: product key -> control dps
    now,         \* what time(0) returns
    LastRetry,   \* static of housetuya_device_periodic
    LastCall,    \* static of housetuya_background
    events,      \* the houselog events of the last handler: <<kind, id>>
    frames,      \* the frames staged by the last handler: <<id, frame>>
    wrote,       \* the frames written to a socket by the last handler
    observed,    \* what the last handler gave the status update: <<id, value>>
    actual,      \* the devices themselves: their real on/off state, by id
    lastSet,     \* history: the last set request applied to each device
    pulseEnded,  \* history: the device's pulse expired, no set request since
    used,        \* what the environment did so far: ticks, pauses, inputs
    Sockets,     \* the descriptors of the TCP connections the process holds
    reply,       \* the HTTP response of the last handler
    silenced,    \* history: the device went SILENT, no beacon from it since
    DeviceListChanged,   \* static of housetuya_device.c
    ModelListChanged,    \* static of housetuya_model.c
    WasLoadedFromDepot,  \* static of housetuya.c
    depotLoaded, \* history: a configuration from the depot was accepted
    returned,    \* what housetuya_device_set returned in the last handler
    received,    \* what the last readable callback read: <<id, kind>>
    crashed,     \* the process has died
    codec,       \* a frame on its way through the encoder and the decoder
    LiveState    \* the value of the state "live" that housestate keeps

vars == <<Devices, Models, now, LastRetry, LastCall, events, frames, wrote,
          observed, actual, lastSet, pulseEnded, used, Sockets, reply,
          silenced, DeviceListChanged, ModelListChanged, WasLoadedFromDepot,
          depotLoaded, returned, received, crashed, codec, LiveState>>

DeviceEmptyContext ==
    [name |-> "", id |-> "", model |-> "", ipaddress |-> 0, detected |-> 0,
     socket |-> 0, listen |-> "none", status |-> 0, commanded |-> 0,
     pending |-> 0, deadline |-> 0, last_sense |-> 0, out |-> NoFrame,
     control |-> 0, encrypted |-> FALSE, key |-> ""]

NoSet == [valid |-> FALSE, state |-> 0, until |-> 0, detected |-> FALSE,
          eligible |-> FALSE, sent |-> FALSE, over |-> -1]

Dev(devs) == 1..Len(devs)

\* A handler works on a "world": the device table, the descriptors the
\* process holds, and what the handler logged and staged so far.
World(devs) ==
    [devs |-> devs, ev |-> <<>>, fr |-> <<>>, ob |-> <<>>, fds |-> Sockets,
     chg |-> DeviceListChanged, ret |-> <<>>]

Upd(w, i, dev) == [w EXCEPT !.devs[i] = dev]
Log(w, kind, i) == [w EXCEPT !.ev = Append(@, <<kind, w.devs[i].id>>)]

\* ------------------------------------------------------- housetuya_model.c

housetuya_model_get_control(id) ==
    IF id \in DOMAIN Models THEN Models[id].control ELSE 0

\* for (i = 0; i < count; ++i) of housetuya_model_refresh
RECURSIVE ModelLoop(_, _, _)
ModelLoop(models, list, k) ==
    IF k > Len(list) THEN models
    ELSE ModelLoop(IF list[k].id = "" \/ list[k].name = ""
                      \/ list[k].control = 0
                   THEN models
                   ELSE [id \in DOMAIN models \cup {list[k].id} |->
                            IF id = list[k].id
                            THEN [name |-> list[k].name,
                                  control |-> list[k].control]
                            ELSE models[id]],
                   list, k + 1)

housetuya_model_refresh(models, list) == ModelLoop(models, list, 1)

\* ------------------------------------------------------ housetuya_device.c

housetuya_device_close(w, i) ==
    IF w.devs[i].socket >= 0
    THEN [Upd(w, i, [w.devs[i] EXCEPT !.socket = -1, !.listen = "none",
                                      !.out = NoFrame])
             EXCEPT !.fds = @ \ {w.devs[i].socket}]
    ELSE w

housetuya_device_reset(w, i, status) ==
    housetuya_device_close(
        Upd(w, i, [w.devs[i] EXCEPT !.commanded = status, !.status = status,
                                    !.pending = 0, !.deadline = 0]), i)

\* echttp_connect hands out the lowest descriptor the process does not hold.
FreshSocket(fds) ==
    CHOOSE fd \in 3..(3 + Cardinality(fds)) :
        /\ fd \notin fds
        /\ \A g \in 3..(fd - 1) : g \in fds

Connect(w, i) ==
    [Upd(w, i, [w.devs[i] EXCEPT !.socket = FreshSocket(w.fds)])
        EXCEPT !.fds = @ \cup {FreshSocket(w.fds)}]

\* Mutant: the connection is opened without closing the row's previous one.
preamble_NoCleanup(w, i, connected) ==
    LET dev == w.devs[i]
        control == IF dev.control <= 0
                   THEN housetuya_model_get_control(dev.model)
                   ELSE dev.control
        w1 == Upd(w, i, [dev EXCEPT !.control = control])
    IN  IF dev.ipaddress = 0 THEN [w |-> w, ok |-> FALSE]
        ELSE IF dev.encrypted /\ dev.id = "" THEN [w |-> w, ok |-> FALSE]
        ELSE IF control <= 0 THEN [w |-> w1, ok |-> FALSE]
        ELSE IF ~connected
             THEN [w |-> Upd(w1, i, [w1.devs[i] EXCEPT !.socket = -1]),
                   ok |-> FALSE]
        ELSE [w |-> Connect(w1, i), ok |-> TRUE]

\* The result: the world, and whether a connection is open for the caller.
\* connected: whether echttp_connect succeeds.
housetuya_device_preamble(w, i, connected) ==
    LET dev == w.devs[i]
        control == IF dev.control <= 0
                   THEN housetuya_model_get_control(dev.model)
                   ELSE dev.control
        w1 == Upd(w, i, [dev EXCEPT !.control = control])
        w2 == housetuya_device_close(w1, i)
    IN  IF dev.ipaddress = 0 THEN [w |-> w, ok |-> FALSE]
        ELSE IF dev.encrypted /\ dev.id = "" THEN [w |-> w, ok |-> FALSE]
        ELSE IF control <= 0 THEN [w |-> w1, ok |-> FALSE]
        ELSE IF ~connected THEN [w |-> w2, ok |-> FALSE]
        ELSE [w |-> Connect(w2, i), ok |-> TRUE]

Stage(w, i, frame) ==
    [Upd(w, i, [w.devs[i] EXCEPT !.out = frame, !.listen = "write"])
        EXCEPT !.fr = Append(@, <<w.devs[i].id, frame>>)]

housetuya_device_sense(w, i, connected) ==
    LET p == housetuya_device_preamble(w, i, connected)
    IN  IF p.ok THEN Stage(p.w, i, QueryFrame) ELSE p.w

housetuya_device_control(w, i, state, connected) ==
    LET p == housetuya_device_preamble(w, i, connected)
    IN  IF p.ok THEN Stage(p.w, i, ControlFrame(state)) ELSE p.w

\* Mutant: a change nobody commanded leaves the pending deadline armed.
status_update_KeepsPending(w, i, status, t) ==
    LET dev == w.devs[i]
        w1 == IF status # dev.status
              THEN IF dev.pending # 0 /\ status = dev.commanded
                   THEN Upd(Log(w, "CONFIRMED", i), i,
                            [dev EXCEPT !.pending = 0, !.status = status])
                   ELSE Upd(Log(w, "CHANGED", i), i,
                            [dev EXCEPT !.commanded = status,
                                        !.status = status])
              ELSE w
    IN  [Upd(w1, i, [w1.devs[i] EXCEPT !.detected = t])
            EXCEPT !.ob = Append(@, <<dev.id, status>>)]

\* Mutant: a change nobody commanded leaves the commanded state as it was.
status_update_KeepsCommanded(w, i, status, t) ==
    LET dev == w.devs[i]
        w1 == IF status # dev.status
              THEN IF dev.pending # 0 /\ status = dev.commanded
                   THEN Upd(Log(w, "CONFIRMED", i), i,
                            [dev EXCEPT !.pending = 0, !.status = status])
                   ELSE Upd(Log(w, "CHANGED", i), i,
                            [dev EXCEPT !.pending = 0, !.status = status])
              ELSE w
    IN  [Upd(w1, i, [w1.devs[i] EXCEPT !.detected = t])
            EXCEPT !.ob = Append(@, <<dev.id, status>>)]

housetuya_device_status_update(w, i, status, t) ==
    LET dev == w.devs[i]
        w1 == IF status # dev.status
              THEN IF dev.pending # 0 /\ status = dev.commanded
                   THEN Upd(Log(w, "CONFIRMED", i), i,
                            [dev EXCEPT !.pending = 0, !.status = status])
                   ELSE Upd(Log(w, "CHANGED", i), i,
                            [dev EXCEPT !.commanded = status, !.pending = 0,
                                        !.status = status])
              ELSE w
    IN  [Upd(w1, i, [w1.devs[i] EXCEPT !.detected = t])
            EXCEPT !.ob = Append(@, <<dev.id, status>>)]

\* Mutant: a set request without pulse leaves the previous deadline running.
device_set_KeepsDeadline(w, i, state, pulse, t, connected) ==
    LET dev == w.devs[i]
        w1 == Upd(Log(w, "SET", i), i,
                  [dev EXCEPT !.deadline = IF pulse > 0 THEN t + pulse ELSE @,
                              !.commanded = state])
        w2 == Upd(w1, i, [w1.devs[i] EXCEPT !.pending = t + SetPendingDelay])
    IN  IF dev.pending # 0 THEN w1
        ELSE IF dev.detected # 0
             THEN housetuya_device_control(w2, i, state, connected)
             ELSE w2

\* Mutant: a set request re-arms pending and sends even when a command is
\* pending.
device_set_Oversteps(w, i, state, pulse, t, connected) ==
    LET dev == w.devs[i]
        w1 == Upd(Log(w, "SET", i), i,
                  [dev EXCEPT !.deadline = IF pulse > 0 THEN t + pulse ELSE 0,
                              !.commanded = state])
        w2 == Upd(w1, i, [w1.devs[i] EXCEPT !.pending = t + SetPendingDelay])
    IN  IF dev.detected # 0
        THEN housetuya_device_control(w2, i, state, connected)
        ELSE w2

\* What the function returns is added to the world.
Return(w, id, value) == [w EXCEPT !.ret = Append(@, <<id, value>>)]

housetuya_device_set(w, i, state, pulse, t, connected) ==
    LET dev == w.devs[i]
        w1 == Upd(Log(w, "SET", i), i,
                  [dev EXCEPT !.deadline = IF pulse > 0 THEN t + pulse ELSE 0,
                              !.commanded = state])
        w2 == Upd(w1, i, [w1.devs[i] EXCEPT !.pending = t + SetPendingDelay])
    IN  IF i - 1 < 0 \/ i - 1 > Len(w.devs) THEN Return(w, "", 0)
        ELSE IF dev.pending # 0 THEN Return(w1, dev.id, 1)
        ELSE IF dev.detected # 0
             THEN Return(housetuya_device_control(w2, i, state, connected),
                         dev.id, 0)
             ELSE Return(w2, dev.id, 0)

\* The four steps of the sweep for one device.
PeriodicSense(w, i, t, connected) ==
    LET dev == w.devs[i]
        w1 == IF dev.pending = 0 /\ dev.ipaddress # 0
              THEN housetuya_device_sense(housetuya_device_close(w, i), i,
                                          connected)
              ELSE w
    IN  IF t >= dev.last_sense + SensePeriod
        THEN Upd(w1, i, [w1.devs[i] EXCEPT !.last_sense = t])
        ELSE w

\* Mutant: the silent device keeps its detected timestamp.
PeriodicSilence_KeepsDetected(w, i, t) ==
    LET dev == w.devs[i]
    IN  IF dev.detected > 0 /\ dev.detected < t - SilenceDelay
        THEN housetuya_device_reset(
                 housetuya_device_close(Log(w, "SILENT", i), i), i, 0)
        ELSE w

\* Mutant: the silent device keeps the status last observed.
PeriodicSilence_KeepsStatus(w, i, t) ==
    LET dev == w.devs[i]
        w1 == housetuya_device_reset(
                  housetuya_device_close(Log(w, "SILENT", i), i), i,
                  dev.status)
    IN  IF dev.detected > 0 /\ dev.detected < t - SilenceDelay
        THEN Upd(w1, i, [w1.devs[i] EXCEPT !.detected = 0])
        ELSE w

PeriodicSilence(w, i, t) ==
    LET dev == w.devs[i]
        w1 == housetuya_device_reset(
                  housetuya_device_close(Log(w, "SILENT", i), i), i, 0)
    IN  IF dev.detected > 0 /\ dev.detected < t - SilenceDelay
        THEN Upd(w1, i, [w1.devs[i] EXCEPT !.detected = 0])
        ELSE w

\* Mutant: the end of a pulse leaves commanded as the set request made it.
PeriodicPulse_KeepsCommanded(w, i, t) ==
    LET dev == w.devs[i]
    IN  IF dev.deadline > 0 /\ t >= dev.deadline
        THEN Upd(Log(w, "RESET", i), i,
                 [dev EXCEPT !.pending = t + PulsePendingDelay,
                             !.deadline = 0])
        ELSE w

\* Mutant: the end of a pulse arms pending as a set request does.
PeriodicPulse_LongPending(w, i, t) ==
    LET dev == w.devs[i]
    IN  IF dev.deadline > 0 /\ t >= dev.deadline
        THEN Upd(Log(w, "RESET", i), i,
                 [dev EXCEPT !.commanded = 0,
                             !.pending = t + SetPendingDelay,
                             !.deadline = 0])
        ELSE w

PeriodicPulse(w, i, t) ==
    LET dev == w.devs[i]
    IN  IF dev.deadline > 0 /\ t >= dev.deadline
        THEN Upd(Log(w, "RESET", i), i,
                 [dev EXCEPT !.commanded = 0,
                             !.pending = t + PulsePendingDelay,
                             !.deadline = 0])
        ELSE w

\* Mutant: the retry does not look at detected.
PeriodicReconcile_RetriesUndetected(w, i, t, connected) ==
    LET dev == w.devs[i]
    IN  IF dev.status # dev.commanded
        THEN IF dev.pending > t
             THEN housetuya_device_control(Log(w, "RETRY", i), i,
                                           dev.commanded, connected)
             ELSE IF dev.pending # 0
                  THEN housetuya_device_reset(
                           housetuya_device_close(Log(w, "TIMEOUT", i), i),
                           i, dev.status)
                  ELSE w
        ELSE w

\* Mutant: a pending deadline that is reached now still counts as running.
PeriodicReconcile_LateTimeout(w, i, t, connected) ==
    LET dev == w.devs[i]
    IN  IF dev.status # dev.commanded
        THEN IF dev.pending >= t
             THEN IF dev.detected # 0
                  THEN housetuya_device_control(Log(w, "RETRY", i), i,
                                                dev.commanded, connected)
                  ELSE w
             ELSE IF dev.pending # 0
                  THEN housetuya_device_reset(
                           housetuya_device_close(Log(w, "TIMEOUT", i), i),
                           i, dev.status)
                  ELSE w
        ELSE w

PeriodicReconcile(w, i, t, connected) ==
    LET dev == w.devs[i]
    IN  IF dev.status # dev.commanded
        THEN IF dev.pending > t
             THEN IF dev.detected # 0
                  THEN housetuya_device_control(Log(w, "RETRY", i), i,
                                                dev.commanded, connected)
                  ELSE w
             ELSE IF dev.pending # 0
                  THEN housetuya_device_reset(
                           housetuya_device_close(Log(w, "TIMEOUT", i), i),
                           i, dev.status)
                  ELSE w
        ELSE w

\* Mutant: the reconciliation runs before the pulse expiry.
PeriodicDevice_ReconcilesFirst(w, i, t, c1, c2) ==
    PeriodicPulse(
        PeriodicReconcile(PeriodicSilence(PeriodicSense(w, i, t, c1), i, t),
                          i, t, c2),
        i, t)

\* Mutant: the silence detection runs last.
PeriodicDevice_SilenceLast(w, i, t, c1, c2) ==
    PeriodicSilence(
        PeriodicReconcile(PeriodicPulse(PeriodicSense(w, i, t, c1), i, t),
                          i, t, c2),
        i, t)

PeriodicDevice(w, i, t, c1, c2) ==
    PeriodicReconcile(
        PeriodicPulse(PeriodicSilence(PeriodicSense(w, i, t, c1), i, t), i, t),
        i, t, c2)

\* for (i = 0; i < DevicesCount; ++i) of the sweep
RECURSIVE PeriodicLoop(_, _, _, _, _)
PeriodicLoop(w, i, t, c1, c2) ==
    IF i > Len(w.devs) THEN w
    ELSE PeriodicLoop(PeriodicDevice(w, i, t, c1[w.devs[i].id],
                                     c2[w.devs[i].id]),
                      i + 1, t, c1, c2)

\* The result: the world and the new LastRetry.
housetuya_device_periodic(w, t, retry, c1, c2) ==
    IF t < retry + RetryPeriod
    THEN [w |-> w, LastRetry |-> retry]
    ELSE [w |-> PeriodicLoop(w, 1, t, c1, c2), LastRetry |-> t]

\* ---------------------------------------------- the table and discovery

housetuya_device_id_search(devs, id) ==
    IF \E i \in Dev(devs) : devs[i].id = id
    THEN CHOOSE i \in Dev(devs) :
            devs[i].id = id /\ \A j \in 1..(i - 1) : devs[j].id # id
    ELSE -1

housetuya_device_add(w, name, id, model) ==
    [w EXCEPT !.devs = Append(@, [DeviceEmptyContext EXCEPT
                                     !.name = name, !.id = id,
                                     !.model = model, !.socket = -1]),
              !.chg = TRUE]

\* Whether housetuya_device_refresh_string raises DeviceListChanged: the new
\* value is there (not null, shown as "") and is not the one stored.
StringChanged(store, value) == value # "" /\ store # value

\* A JSON token of a datagram's payload, as echttp_json gives it; "none" when
\* the search for the path returns -1.
Str(s) == [type |-> "string", string |-> s, bool |-> FALSE]
Num == [type |-> "integer", string |-> "", bool |-> FALSE]
Bool(b) == [type |-> "bool", string |-> "", bool |-> b]
None == [type |-> "none", string |-> "", bool |-> FALSE]

\* What a datagram yields.  text: "json" when housetuya_extract gives more
\* than 4 bytes and they parse as JSON, "short" and "garbled" otherwise.
Announce(id, product, encrypt) ==
    [text |-> "json", gwId |-> Str(id), productKey |-> Str(product),
     version |-> Str("3.3"), encrypt |-> Bool(encrypt)]
Datagrams ==
    LET good == Announce("bf12", "keyA", FALSE)
    IN  {good,
         [good EXCEPT !.text = "short"],
         [good EXCEPT !.text = "garbled"],
         [good EXCEPT !.gwId = None],
         [good EXCEPT !.gwId = Num],
         [good EXCEPT !.productKey = None],
         [good EXCEPT !.productKey = Num],
         [good EXCEPT !.version = None],
         [good EXCEPT !.version = Num],
         [good EXCEPT !.encrypt = None],
         [good EXCEPT !.encrypt = Num]}
\* What the bytes at a non-string token's value read as, taken for a string.
JunkString == "?"

\* The checks of housetuya_device_discovery on a datagram, and what they let
\* through.  The productKey check tests the type of the gwId token again, so a
\* productKey that is no string passes: its value is then read as a string
\* pointer, which crashes or yields whatever bytes are there.  A payload
\* without .encrypt makes the code read json[-1], which may or may not look
\* like a boolean.
DiscoveryOutcomes(payload) ==
    LET ignored == [kind |-> "ignored", id |-> "", product |-> "",
                    encrypt |-> FALSE]
        crash == [ignored EXCEPT !.kind = "crash"]
        encrypts == IF payload.encrypt.type = "bool"
                    THEN {payload.encrypt.bool}
                    ELSE IF payload.encrypt.type = "none" THEN BOOLEAN
                    ELSE {FALSE}
        Rows(product) == {[kind |-> "row", id |-> payload.gwId.string,
                           product |-> product, encrypt |-> e] :
                             e \in encrypts}
    IN  IF payload.text # "json" THEN {ignored}
        ELSE IF payload.gwId.type # "string" THEN {ignored}
        ELSE IF payload.productKey.type = "none" THEN {ignored}
        ELSE IF payload.version.type # "string" THEN {ignored}
        ELSE IF payload.productKey.type = "string"
             THEN Rows(payload.productKey.string)
             ELSE {crash} \cup Rows(JunkString)

\* Mutant: a beacon from a device that was not detected resets its row, as a
\* configuration load does.
discovery_ResetsRow(w, id, product, encrypt, t) ==
    LET found == housetuya_device_id_search(w.devs, id)
        w0 == IF found < 0
              THEN housetuya_device_add(w, AutoName(Len(w.devs)), id, product)
              ELSE w
        i == IF found < 0 THEN Len(w0.devs) ELSE found
        w1 == Upd(w0, i, [w0.devs[i] EXCEPT !.model = product,
                                            !.encrypted = encrypt,
                                            !.ipaddress = 1])
        w2 == IF w1.devs[i].detected = 0
              THEN housetuya_device_reset(
                       Upd(Log(w1, "DETECTED", i), i,
                           [w1.devs[i] EXCEPT !.last_sense = 0]),
                       i, w1.devs[i].status)
              ELSE w1
    IN  Upd(w2, i, [w2.devs[i] EXCEPT !.detected = t])

\* A beacon from device id, announcing its product key and whether it
\* encrypts.
housetuya_device_discovery(w, id, product, encrypt, t) ==
    LET found == housetuya_device_id_search(w.devs, id)
        w0 == IF found < 0
              THEN housetuya_device_add(w, AutoName(Len(w.devs)), id, product)
              ELSE w
        i == IF found < 0 THEN Len(w0.devs) ELSE found
        w1 == [Upd(w0, i, [w0.devs[i] EXCEPT !.model = product,
                                             !.encrypted = encrypt,
                                             !.ipaddress = 1])
                  EXCEPT !.chg = \/ @
                                 \/ StringChanged(w0.devs[i].model, product)
                                 \/ w0.devs[i].ipaddress # 1]
        w2 == IF w1.devs[i].detected = 0
              THEN Upd(Log(w1, "DETECTED", i), i,
                       [w1.devs[i] EXCEPT !.last_sense = 0])
              ELSE w1
    IN  Upd(w2, i, [w2.devs[i] EXCEPT !.detected = t])

\* Mutant: every entry of the configuration makes a new row.
RECURSIVE RefreshLoop_AlwaysAdds(_, _, _)
RefreshLoop_AlwaysAdds(w, config, k) ==
    IF k > Len(config) THEN w
    ELSE LET w1 == housetuya_device_add(w, config[k].name, config[k].id,
                                        config[k].model)
             idx == Len(w1.devs)
             w2 == Upd(w1, idx, [w1.devs[idx] EXCEPT !.key = config[k].key])
         IN  RefreshLoop_AlwaysAdds(
                 housetuya_device_reset(w2, idx, w2.devs[idx].status),
                 config, k + 1)

\* for (i = 0; i < count; ++i) of housetuya_device_refresh
RECURSIVE RefreshLoop(_, _, _)
RefreshLoop(w, config, k) ==
    IF k > Len(config) THEN w
    ELSE LET found == housetuya_device_id_search(w.devs, config[k].id)
             w1 == IF found < 0
                   THEN housetuya_device_add(w, config[k].name, config[k].id,
                                             config[k].model)
                   ELSE Upd(w, found, [w.devs[found] EXCEPT
                                          !.name = config[k].name])
             idx == IF found < 0 THEN Len(w1.devs) ELSE found
             w2 == [Upd(w1, idx, [w1.devs[idx] EXCEPT !.key = config[k].key])
                       EXCEPT !.chg =
                          \/ @
                          \/ found > 0 /\ StringChanged(w.devs[idx].name,
                                                        config[k].name)
                          \/ StringChanged(w1.devs[idx].key, config[k].key)]
         IN  RefreshLoop(housetuya_device_reset(w2, idx, w2.devs[idx].status),
                         config, k + 1)

housetuya_device_refresh(w, config) == RefreshLoop(w, config, 1)

\* ------------------------------------------------------------- housetuya.c

Points == {Config[k].name : k \in 1..Len(Config)}
              \cup {AutoName(n) : n \in 0..(Cardinality(DeviceIds) - 1)}
              \cup {"all"}

\* for (i = 0; i < count; ++i) of housetuya_set
RECURSIVE SetLoop(_, _, _, _, _, _, _)
SetLoop(w, i, point, state, pulse, t, c) ==
    IF i > Len(w.devs) THEN w
    ELSE SetLoop(IF point = "all" \/ point = w.devs[i].name
                 THEN housetuya_device_set(w, i, state, pulse, t,
                                           c[w.devs[i].id])
                 ELSE w,
                 i + 1, point, state, pulse, t, c)

\* The text of a request parameter is a sequence of characters.
DigitChars == <<"0", "1", "2", "3", "4", "5", "6", "7", "8", "9">>
IsDigit(ch) == \E d \in 1..10 : DigitChars[d] = ch
DigitValue(ch) == (CHOOSE d \in 1..10 : DigitChars[d] = ch) - 1

\* The decimal text of a natural number, as a client writes it.
RECURSIVE Decimal(_)
Decimal(n) ==
    IF n < 10 THEN <<DigitChars[n + 1]>>
    ELSE Append(Decimal(n \div 10), DigitChars[(n % 10) + 1])

\* atoi: blanks, an optional sign, then the digits up to the first character
\* that is not one; 0 when there is no digit.
RECURSIVE AtoiDigits(_, _, _)
AtoiDigits(text, k, acc) ==
    IF k > Len(text) \/ ~IsDigit(text[k]) THEN acc
    ELSE AtoiDigits(text, k + 1, acc * 10 + DigitValue(text[k]))

RECURSIVE AtoiBlanks(_, _)
AtoiBlanks(text, k) ==
    IF k <= Len(text) /\ text[k] = " " THEN AtoiBlanks(text, k + 1) ELSE k

atoi(text) ==
    LET k == AtoiBlanks(text, 1)
    IN  IF k <= Len(text) /\ text[k] = "-" THEN 0 - AtoiDigits(text, k + 1, 0)
        ELSE IF k <= Len(text) /\ text[k] = "+" THEN AtoiDigits(text, k + 1, 0)
        ELSE AtoiDigits(text, k, 0)

\* The requests a client may send: a record with the parameters present.
\* Every point with on and off, with and without a pulse; the other
\* spellings of the state, a state that is none, a negative and a non-numeric
\* pulse, each for all the points at once; and a request without point, one
\* without state.
Requests ==
    {[point |-> p, state |-> st] : p \in Points, st \in {"on", "off"}}
        \cup {[point |-> p, state |-> st, pulse |-> Decimal(PulseLen)] :
                  p \in Points, st \in {"on", "off"}}
        \cup {[point |-> "all", state |-> st] : st \in {"1", "0", "dim"}}
        \cup {[point |-> "all", state |-> "on", pulse |-> pt] :
                  pt \in {<<"-", "1">>, <<"a", "b", "c">>}}
        \cup {[state |-> "on"], [point |-> "all"]}

SetState(req) == IF req.state \in {"on", "1"} THEN 1 ELSE 0
SetPulse(req) == IF "pulse" \in DOMAIN req THEN atoi(req.pulse) ELSE 0

\* The status document: one object per device, with the fields present.
StatusPoint(dev) ==
    LET status == IF dev.detected = 0 THEN "silent"
                  ELSE IF dev.status # 0 THEN "on" ELSE "off"
        commanded == IF dev.commanded # 0 THEN "on" ELSE "off"
        base == [name |-> dev.name, state |-> status, gear |-> "light"]
        cmd == IF status # commanded
               THEN ("command" :> commanded) @@ base
               ELSE base
    IN  IF dev.deadline # 0 THEN ("pulse" :> dev.deadline) @@ cmd ELSE cmd

housetuya_status(devs) == [i \in Dev(devs) |-> StatusPoint(devs[i])]

NoReply == [code |-> 0, doc |-> <<>>, uri |-> "", latest |-> -1]

\* The state "live" of housestate, as housetuya.c uses it: a value that
\* housestate_changed advances, that housestate_current reads, and that
\* housestate_same compares with the request's parameter "known" (NoKnown
\* when the request has none), answering 304 itself when they are equal.
NoKnown == -1
housestate_changed(value) == value + 1
housestate_current(value) == value
housestate_same(value, known) == known # NoKnown /\ known = value

\* The result: the world and the HTTP response.
housetuya_set(w, req, t, c) ==
    IF "point" \notin DOMAIN req THEN [w |-> w, code |-> 404, doc |-> <<>>]
    ELSE IF "state" \notin DOMAIN req
         THEN [w |-> w, code |-> 400, doc |-> <<>>]
    ELSE IF req.state \notin {"on", "1", "off", "0"}
         THEN [w |-> w, code |-> 400, doc |-> <<>>]
    ELSE IF SetPulse(req) < 0 THEN [w |-> w, code |-> 400, doc |-> <<>>]
    ELSE LET w1 == SetLoop(w, 1, req.point, SetState(req), SetPulse(req), t, c)
             found == \E i \in Dev(w.devs) :
                         req.point = "all" \/ req.point = w.devs[i].name
         IN  IF ~found THEN [w |-> w1, code |-> 404, doc |-> <<>>]
             ELSE [w |-> w1, code |-> 200, doc |-> housetuya_status(w1.devs)]

\* The documents an administrator posts and the depot delivers.
Documents == {[devices |-> config, models |-> ConfigModels] :
                 config \in Configs}

housetuya_device_live_config(devs) ==
    [i \in Dev(devs) |-> [name |-> devs[i].name, id |-> devs[i].id,
                          model |-> devs[i].model, key |-> devs[i].key]]

RECURSIVE housetuya_model_live_config(_)
housetuya_model_live_config(models) ==
    IF DOMAIN models = {} THEN <<>>
    ELSE LET id == CHOOSE x \in DOMAIN models : TRUE
         IN  <<[id |-> id, name |-> models[id].name,
                control |-> models[id].control]>>
             \o housetuya_model_live_config(
                    [x \in DOMAIN models \ {id} |-> models[x]])

housetuya_export(devs, models) ==
    [devices |-> housetuya_device_live_config(devs),
     models |-> housetuya_model_live_config(models)]

\* The configuration goes to the depot only if it came from there.
save_to_depot_Always(w, loaded) ==
    [w EXCEPT !.ev = Append(@, <<"SAVE", "config">>)]
housetuya_save_to_depot(w, loaded) ==
    IF ~loaded THEN w
    ELSE [w EXCEPT !.ev = Append(@, <<"SAVE", "config">>)]

\* ---------------------------------------------------- housetuya_messages.c

\* A frame is a sequence of bytes; a string is the sequence of its
\* characters' codes, without the final 0.
TuyaPrefix == 21930
TuyaSuffix == 43605
HeaderSize == 16
VersionSize == 15
BlockSize == 16

CodecIds == {<<98, 102, 49, 50>>, <<101, 98, 51, 52>>}
CodecKeys ==
    {<<48, 49, 50, 51, 52, 53, 54, 55, 56, 57, 97, 98, 99, 100, 101, 102>>,
     <<102, 101, 100, 99, 98, 97, 57, 56, 55, 54, 53, 52, 51, 50, 49, 48>>}
\* "3.3", "3.4" and the empty string.
CodecVersions == {<<51, 46, 51>>, <<51, 46, 52>>, <<>>}
CodecDps == {1, 20}
CodecSequences == {1, 258}
CodecCodes == {TUYA_CONTROL, TUYA_QUERY}

\* htonl and ntohl: a 32 bit word as 4 bytes, and back (k counts from 0).
Word(n) == <<(n \div 16777216) % 256, (n \div 65536) % 256,
             (n \div 256) % 256, n % 256>>
WordAt(buffer, k) ==
    ((buffer[k + 1] * 256 + buffer[k + 2]) * 256 + buffer[k + 3]) * 256
        + buffer[k + 4]
Zeros(n) == [k \in 1..n |-> 0]
Text(digits) == [k \in 1..Len(digits) |-> 48 + DigitValue(digits[k])]

\* AES-128-ECB as OpenSSL does it, PKCS padding included, stands here as a
\* keyed substitution of the bytes of each block.
housetuya_encrypt(key, clear) ==
    LET pad == BlockSize - (Len(clear) % BlockSize)
        padded == clear \o [k \in 1..pad |-> pad]
    IN  [k \in 1..Len(padded) |->
            (padded[k] + key[((k - 1) % BlockSize) + 1]) % 256]

\* The length is 0 when OpenSSL rejects the data.
housetuya_decrypt(key, encrypted) ==
    LET n == Len(encrypted)
        padded == [k \in 1..n |->
                      (encrypted[k] + 256 - key[((k - 1) % BlockSize) + 1])
                          % 256]
        pad == IF n = 0 THEN 0 ELSE padded[n]
        sound == /\ n > 0
                 /\ n % BlockSize = 0
                 /\ pad \in 1..BlockSize
                 /\ \A k \in (n - pad + 1)..n : padded[k] = pad
        clear == SubSeq(padded, 1, n - pad)
        extra == IF clear # <<>> /\ clear[Len(clear)] \in 1..(BlockSize - 1)
                 THEN clear[Len(clear)] ELSE 0
    IN  IF ~sound THEN <<>>
        ELSE SubSeq(clear, 1, Len(clear) - extra)

\* The checksum is the table-driven CRC-32 (polynomial 0xEDB88320, initial
\* value and final XOR 0xFFFFFFFF).  A 32 bit value is kept as its 4 bytes,
\* most significant first.
CrcTable == <<
    <<0, 0, 0, 0>>, <<119, 7, 48, 150>>, <<238, 14, 97, 44>>,
    <<153, 9, 81, 186>>, <<7, 109, 196, 25>>, <<112, 106, 244, 143>>,
    <<233, 99, 165, 53>>, <<158, 100, 149, 163>>, <<14, 219, 136, 50>>,
    <<121, 220, 184, 164>>, <<224, 213, 233, 30>>, <<151, 210, 217, 136>>,
    <<9, 182, 76, 43>>, <<126, 177, 124, 189>>, <<231, 184, 45, 7>>,
    <<144, 191, 29, 145>>, <<29, 183, 16, 100>>, <<106, 176, 32, 242>>,
    <<243, 185, 113, 72>>, <<132, 190, 65, 222>>, <<26, 218, 212, 125>>,
    <<109, 221, 228, 235>>, <<244, 212, 181, 81>>, <<131, 211, 133, 199>>,
    <<19, 108, 152, 86>>, <<100, 107, 168, 192>>, <<253, 98, 249, 122>>,
    <<138, 101, 201, 236>>, <<20, 1, 92, 79>>, <<99, 6, 108, 217>>,
    <<250, 15, 61, 99>>, <<141, 8, 13, 245>>, <<59, 110, 32, 200>>,
    <<76, 105, 16, 94>>, <<213, 96, 65, 228>>, <<162, 103, 113, 114>>,
    <<60, 3, 228, 209>>, <<75, 4, 212, 71>>, <<210, 13, 133, 253>>,
    <<165, 10, 181, 107>>, <<53, 181, 168, 250>>, <<66, 178, 152, 108>>,
    <<219, 187, 201, 214>>, <<172, 188, 249, 64>>, <<50, 216, 108, 227>>,
    <<69, 223, 92, 117>>, <<220, 214, 13, 207>>, <<171, 209, 61, 89>>,
    <<38, 217, 48, 172>>, <<81, 222, 0, 58>>, <<200, 215, 81, 128>>,
    <<191, 208, 97, 22>>, <<33, 180, 244, 181>>, <<86, 179, 196, 35>>,
    <<207, 186, 149, 153>>, <<184, 189, 165, 15>>, <<40, 2, 184, 158>>,
    <<95, 5, 136, 8>>, <<198, 12, 217, 178>>, <<177, 11, 233, 36>>,
    <<47, 111, 124, 135>>, <<88, 104, 76, 17>>, <<193, 97, 29, 171>>,
    <<182, 102, 45, 61>>, <<118, 220, 65, 144>>, <<1, 219, 113, 6>>,
    <<152, 210, 32, 188>>, <<239, 213, 16, 42>>, <<113, 177, 133, 137>>,
    <<6, 182, 181, 31>>, <<159, 191, 228, 165>>, <<232, 184, 212, 51>>,
    <<120, 7, 201, 162>>, <<15, 0, 249, 52>>, <<150, 9, 168, 142>>,
    <<225, 14, 152, 24>>, <<127, 106, 13, 187>>, <<8, 109, 61, 45>>,
    <<145, 100, 108, 151>>, <<230, 99, 92, 1>>, <<107, 107, 81, 244>>,
    <<28, 108, 97, 98>>, <<133, 101, 48, 216>>, <<242, 98, 0, 78>>,
    <<108, 6, 149, 237>>, <<27, 1, 165, 123>>, <<130, 8, 244, 193>>,
    <<245, 15, 196, 87>>, <<101, 176, 217, 198>>, <<18, 183, 233, 80>>,
    <<139, 190, 184, 234>>, <<252, 185, 136, 124>>, <<98, 221, 29, 223>>,
    <<21, 218, 45, 73>>, <<140, 211, 124, 243>>, <<251, 212, 76, 101>>,
    <<77, 178, 97, 88>>, <<58, 181, 81, 206>>, <<163, 188, 0, 116>>,
    <<212, 187, 48, 226>>, <<74, 223, 165, 65>>, <<61, 216, 149, 215>>,
    <<164, 209, 196, 109>>, <<211, 214, 244, 251>>, <<67, 105, 233, 106>>,
    <<52, 110, 217, 252>>, <<173, 103, 136, 70>>, <<218, 96, 184, 208>>,
    <<68, 4, 45, 115>>, <<51, 3, 29, 229>>, <<170, 10, 76, 95>>,
    <<221, 13, 124, 201>>, <<80, 5, 113, 60>>, <<39, 2, 65, 170>>,
    <<190, 11, 16, 16>>, <<201, 12, 32, 134>>, <<87, 104, 181, 37>>,
    <<32, 111, 133, 179>>, <<185, 102, 212, 9>>, <<206, 97, 228, 159>>,
    <<94, 222, 249, 14>>, <<41, 217, 201, 152>>, <<176, 208, 152, 34>>,
    <<199, 215, 168, 180>>, <<89, 179, 61, 23>>, <<46, 180, 13, 129>>,
    <<183, 189, 92, 59>>, <<192, 186, 108, 173>>, <<237, 184, 131, 32>>,
    <<154, 191, 179, 182>>, <<3, 182, 226, 12>>, <<116, 177, 210, 154>>,
    <<234, 213, 71, 57>>, <<157, 210, 119, 175>>, <<4, 219, 38, 21>>,
    <<115, 220, 22, 131>>, <<227, 99, 11, 18>>, <<148, 100, 59, 132>>,
    <<13, 109, 106, 62>>, <<122, 106, 90, 168>>, <<228, 14, 207, 11>>,
    <<147, 9, 255, 157>>, <<10, 0, 174, 39>>, <<125, 7, 158, 177>>,
    <<240, 15, 147, 68>>, <<135, 8, 163, 210>>, <<30, 1, 242, 104>>,
    <<105, 6, 194, 254>>, <<247, 98, 87, 93>>, <<128, 101, 103, 203>>,
    <<25, 108, 54, 113>>, <<110, 107, 6, 231>>, <<254, 212, 27, 118>>,
    <<137, 211, 43, 224>>, <<16, 218, 122, 90>>, <<103, 221, 74, 204>>,
    <<249, 185, 223, 111>>, <<142, 190, 239, 249>>, <<23, 183, 190, 67>>,
    <<96, 176, 142, 213>>, <<214, 214, 163, 232>>, <<161, 209, 147, 126>>,
    <<56, 216, 194, 196>>, <<79, 223, 242, 82>>, <<209, 187, 103, 241>>,
    <<166, 188, 87, 103>>, <<63, 181, 6, 221>>, <<72, 178, 54, 75>>,
    <<216, 13, 43, 218>>, <<175, 10, 27, 76>>, <<54, 3, 74, 246>>,
    <<65, 4, 122, 96>>, <<223, 96, 239, 195>>, <<168, 103, 223, 85>>,
    <<49, 110, 142, 239>>, <<70, 105, 190, 121>>, <<203, 97, 179, 140>>,
    <<188, 102, 131, 26>>, <<37, 111, 210, 160>>, <<82, 104, 226, 54>>,
    <<204, 12, 119, 149>>, <<187, 11, 71, 3>>, <<34, 2, 22, 185>>,
    <<85, 5, 38, 47>>, <<197, 186, 59, 190>>, <<178, 189, 11, 40>>,
    <<43, 180, 90, 146>>, <<92, 179, 106, 4>>, <<194, 215, 255, 167>>,
    <<181, 208, 207, 49>>, <<44, 217, 158, 139>>, <<91, 222, 174, 29>>,
    <<155, 100, 194, 176>>, <<236, 99, 242, 38>>, <<117, 106, 163, 156>>,
    <<2, 109, 147, 10>>, <<156, 9, 6, 169>>, <<235, 14, 54, 63>>,
    <<114, 7, 103, 133>>, <<5, 0, 87, 19>>, <<149, 191, 74, 130>>,
    <<226, 184, 122, 20>>, <<123, 177, 43, 174>>, <<12, 182, 27, 56>>,
    <<146, 210, 142, 155>>, <<229, 213, 190, 13>>, <<124, 220, 239, 183>>,
    <<11, 219, 223, 33>>, <<134, 211, 210, 212>>, <<241, 212, 226, 66>>,
    <<104, 221, 179, 248>>, <<31, 218, 131, 110>>, <<129, 190, 22, 205>>,
    <<246, 185, 38, 91>>, <<111, 176, 119, 225>>, <<24, 183, 71, 119>>,
    <<136, 8, 90, 230>>, <<255, 15, 106, 112>>, <<102, 6, 59, 202>>,
    <<17, 1, 11, 92>>, <<143, 101, 158, 255>>, <<248, 98, 174, 105>>,
    <<97, 107, 255, 211>>, <<22, 108, 207, 69>>, <<160, 10, 226, 120>>,
    <<215, 13, 210, 238>>, <<78, 4, 131, 84>>, <<57, 3, 179, 194>>,
    <<167, 103, 38, 97>>, <<208, 96, 22, 247>>, <<73, 105, 71, 77>>,
    <<62, 110, 119, 219>>, <<174, 209, 106, 74>>, <<217, 214, 90, 220>>,
    <<64, 223, 11, 102>>, <<55, 216, 59, 240>>, <<169, 188, 174, 83>>,
    <<222, 187, 158, 197>>, <<71, 178, 207, 127>>, <<48, 181, 255, 233>>,
    <<189, 189, 242, 28>>, <<202, 186, 194, 138>>, <<83, 179, 147, 48>>,
    <<36, 180, 163, 166>>, <<186, 208, 54, 5>>, <<205, 215, 6, 147>>,
    <<84, 222, 87, 41>>, <<35, 217, 103, 191>>, <<179, 102, 122, 46>>,
    <<196, 97, 74, 184>>, <<93, 104, 27, 2>>, <<42, 111, 43, 148>>,
    <<180, 11, 190, 55>>, <<195, 12, 142, 161>>, <<90, 5, 223, 27>>,
    <<45, 2, 239, 141>>
    >>
XorBit(a, b, p) == p * (((a \div p) + (b \div p)) % 2)
Xor8(a, b) ==
    XorBit(a, b, 1) + XorBit(a, b, 2) + XorBit(a, b, 4) + XorBit(a, b, 8)
        + XorBit(a, b, 16) + XorBit(a, b, 32) + XorBit(a, b, 64)
        + XorBit(a, b, 128)
\* crc = table[(crc ^ byte) & 0xff] ^ (crc >> 8)
CrcStep(crc, byte) ==
    LET entry == CrcTable[Xor8(crc[4], byte) + 1]
    IN  <<entry[1], Xor8(entry[2], crc[1]), Xor8(entry[3], crc[2]),
          Xor8(entry[4], crc[3])>>
\* The bytes lo..hi, one after the other (the range is halved to keep the
\* evaluation shallow).
RECURSIVE CrcRun(_, _, _, _)
CrcRun(bytes, lo, hi, crc) ==
    IF lo > hi THEN crc
    ELSE IF lo = hi THEN CrcStep(crc, bytes[lo])
    ELSE LET mid == (lo + hi) \div 2
             half == CrcRun(bytes, lo, mid, crc)
         IN  IF Len(half) = 4 THEN CrcRun(bytes, mid + 1, hi, half)
             ELSE half

housetuya_crc(bytes) ==
    LET crc == CrcRun(bytes, 1, Len(bytes), <<255, 255, 255, 255>>)
    IN  <<255 - crc[1], 255 - crc[2], 255 - crc[3], 255 - crc[4]>>

housetuya_start_envelop(sequence, code) ==
    Word(TuyaPrefix) \o Word(sequence) \o Word(code) \o Zeros(4)

housetuya_end_envelop_pre34(buffer) ==
    LET length == Len(buffer)
        body == SubSeq(buffer, HeaderSize + 1, length)
    IN  SubSeq(buffer, 1, 12) \o Word(length - 8) \o body
            \o housetuya_crc(body) \o Word(TuyaSuffix)

\* memset (.., 0, 15) then strncpy (.., version, 15)
VersionHeader(version) ==
    [k \in 1..VersionSize |-> IF k <= Len(version) THEN version[k] ELSE 0]

housetuya_encode(access, code, sequence, data) ==
    LET start == housetuya_start_envelop(sequence, code)
        header == IF code # TUYA_QUERY THEN VersionHeader(access.version)
                  ELSE <<>>
    IN  housetuya_end_envelop_pre34(
            start \o header \o housetuya_encrypt(access.key, data))

\* The JSON texts of the two commands.
ControlText(id, t, dps, value) ==
    <<123, 34, 100, 101, 118, 73, 100, 34, 58, 34>> \o id
        \o <<34, 44, 34, 117, 105, 100, 34, 58, 34>> \o id
        \o <<34, 44, 34, 116, 34, 58, 34>> \o Text(Decimal(t))
        \o <<34, 44, 34, 100, 112, 115, 34, 58, 123, 34>>
        \o Text(Decimal(dps)) \o <<34, 58>>
        \o (IF value # 0 THEN <<116, 114, 117, 101>>
            ELSE <<102, 97, 108, 115, 101>>)
        \o <<125, 125>>
QueryText(id, t) ==
    <<123, 34, 100, 101, 118, 73, 100, 34, 58, 34>> \o id
        \o <<34, 44, 34, 117, 105, 100, 34, 58, 34>> \o id
        \o <<34, 44, 34, 116, 34, 58, 34>> \o Text(Decimal(t))
        \o <<34, 125>>

housetuya_control(access, sequence, dps, value, t) ==
    housetuya_encode(access, TUYA_CONTROL, sequence,
                     ControlText(access.id, t, dps, value))

housetuya_query(access, sequence, t) ==
    housetuya_encode(access, TUYA_QUERY, sequence, QueryText(access.id, t))

\* A null pointer where a string is expected, and where a secret is.
NullString == <<-1>>
Null == [id |-> NullString, key |-> NullString, version |-> NullString]

\* strcmp (version, data) = 0, data starting at offset k of the buffer.
SameString(version, buffer, k) ==
    /\ k + Len(version) + 1 <= Len(buffer)
    /\ \A j \in 1..Len(version) : buffer[k + j] = version[j]
    /\ buffer[k + Len(version) + 1] = 0

\* Where the data starts and how long it is; the length is 0 when the
\* envelope is rejected.  written: whether code and sequence were stored (they
\* are not when the prefix is wrong).
housetuya_open_envelop(version, buffer) ==
    LET length == Len(buffer)
        coded == buffer[17] # 0 \/ buffer[18] # 0 \/ buffer[19] # 0
        start == IF coded THEN 16 ELSE 20
        left == IF coded THEN length - (16 + 8) ELSE length - (20 + 8)
        extended == version # NullString /\ SameString(version, buffer, start)
    IN  IF WordAt(buffer, 0) # TuyaPrefix
        THEN [length |-> 0, data |-> 0, code |-> 0, sequence |-> 0,
              written |-> FALSE]
        ELSE LET head == [length |-> 0, data |-> 0,
                          code |-> WordAt(buffer, 8),
                          sequence |-> WordAt(buffer, 4),
                          written |-> TRUE]
             IN  IF WordAt(buffer, 12) # length - 16 THEN head
                 ELSE IF WordAt(buffer, length - 4) # TuyaSuffix THEN head
                 ELSE IF extended
                      THEN [head EXCEPT !.length = left - VersionSize,
                                        !.data = start + VersionSize]
                      ELSE [head EXCEPT !.length = left, !.data = start]

\* The result: the number of bytes, the bytes, the code and the sequence
\* number.  With a secret the data is decrypted and a length of 0 or less
\* gives 0; without one (Null) the length of the envelope is what memcpy is
\* given and what is returned.
housetuya_extract(secret, raw) ==
    LET env == housetuya_open_envelop(
                   IF secret = Null THEN NullString ELSE secret.version, raw)
        clear == IF env.length <= 0 THEN <<>>
                 ELSE IF secret = Null
                      THEN SubSeq(raw, env.data + 1, env.data + env.length)
                      ELSE housetuya_decrypt(
                               secret.key,
                               SubSeq(raw, env.data + 1,
                                      env.data + env.length))
    IN  [length |-> IF secret = Null THEN env.length ELSE Len(clear),
         data |-> clear, code |-> env.code, sequence |-> env.sequence,
         written |-> env.written]

\* What may arrive in place of the frame that was sent: the frame itself, the
\* frame with a wrong prefix, suffix or length field, and two frames without
\* payload: header and trailer only, and header, return code 0 and trailer.
FrameVariants ==
    {"intact", "prefix", "suffix", "length", "empty", "ack"}
Variant(frame, kind) ==
    LET start == SubSeq(frame, 1, 12) \o Zeros(4)
    IN  CASE kind = "intact" -> frame
          [] kind = "prefix" -> [frame EXCEPT ![4] = 171]
          [] kind = "suffix" -> [frame EXCEPT ![Len(frame)] = 86]
          [] kind = "length" -> [frame EXCEPT ![16] = (@ + 1) % 256]
          [] kind = "empty" -> housetuya_end_envelop_pre34(start)
          [] kind = "ack" -> housetuya_end_envelop_pre34(start \o Zeros(4))

NoCodec == [stage |-> "idle"]

\* A command to encode: a secret, a sequence number, a code, and the dps and
\* the value of a CONTROL.
CodecInputs ==
    [stage : {"command"},
     access : [id : CodecIds, key : CodecKeys, version : CodecVersions],
     sequence : CodecSequences, code : CodecCodes, dps : CodecDps,
     value : {0, 1}, t : {StartTime}]

\* ----------------------------------------------------------------- actions

Quiet == /\ events' = <<>>
         /\ frames' = <<>>
         /\ wrote' = <<>>
         /\ observed' = <<>>
         /\ reply' = NoReply
         /\ returned' = <<>>
         /\ received' = <<>>

\* The environment acts between two background ticks, a bounded number of
\* times.
Input == used.inputs < MaxInputs /\ LastCall = now /\ ~crashed
Spend == [used EXCEPT !.inputs = @ + 1]

Has(evs, kind, id) == \E k \in 1..Len(evs) : evs[k] = <<kind, id>>
Count(evs, kind, id) ==
    Cardinality({k \in 1..Len(evs) : evs[k] = <<kind, id>>})
Row(id) == Devices[housetuya_device_id_search(Devices, id)]
Known(id) == housetuya_device_id_search(Devices, id) > 0

Commit(w) ==
    /\ Devices' = w.devs
    /\ Sockets' = w.fds
    /\ events' = w.ev
    /\ frames' = w.fr
    /\ observed' = w.ob
    /\ DeviceListChanged' = w.chg
    /\ returned' = w.ret
    /\ pulseEnded' = [id \in DeviceIds |->
                         IF Has(w.ev, "SET", id) THEN FALSE
                         ELSE IF Has(w.ev, "RESET", id) THEN TRUE
                         ELSE pulseEnded[id]]

\* History kept of a set request, for the properties about what follows it.
\* eligible: the request changed commanded to a state other than the status,
\* on a device that is detected, has an address and a dps to command, and
\* that accepts connections (echttp_connect cannot fail).
\* sent: a CONTROL frame carrying the state of such a request was staged
\* since.
\* over: the state of the previous request when this one replaced it while
\* that command was still pending, -1 otherwise.
Eligible(dev, state, Connects) ==
    /\ Connects = {TRUE}
    /\ dev.detected # 0
    /\ dev.ipaddress # 0
    /\ (dev.control > 0 \/ housetuya_model_get_control(dev.model) > 0)
    /\ dev.commanded # state
    /\ dev.status # state
Superseded(dev, last, ended, state) ==
    IF /\ last.valid
       /\ ~ended
       /\ dev.pending # 0
       /\ dev.commanded = last.state
       /\ dev.status # last.state
       /\ state # last.state
    THEN last.state ELSE -1

\* GET /tuya/set?point=..&state=..&pulse=..  Connects: the outcomes
\* echttp_connect may have.
SetRequest(req, Connects) ==
    /\ Input
    /\ \E c \in [DeviceIds -> Connects] :
          LET r == housetuya_set(World(Devices), req, now, c)
          IN  /\ Commit(r.w)
              /\ reply' = [code |-> r.code, doc |-> r.doc, uri |-> "/tuya/set",
                           latest |-> IF r.code = 200
                                      THEN housestate_current(LiveState)
                                      ELSE -1]
              /\ lastSet' = [id \in DeviceIds |->
                    IF Has(r.w.ev, "SET", id)
                    THEN [valid |-> TRUE, state |-> SetState(req),
                          until |-> IF SetPulse(req) > 0
                                    THEN now + SetPulse(req) ELSE 0,
                          detected |-> Row(id).detected # 0,
                          eligible |-> Eligible(Row(id), SetState(req),
                                                Connects),
                          sent |-> /\ Eligible(Row(id), SetState(req),
                                               Connects)
                                   /\ \E k \in 1..Len(r.w.fr) :
                                         r.w.fr[k] = <<id, ControlFrame(
                                                           SetState(req))>>,
                          over |-> Superseded(Row(id), lastSet[id],
                                              pulseEnded[id], SetState(req))]
                    ELSE lastSet[id]]
    /\ wrote' = <<>>
    /\ received' = <<>>
    /\ used' = Spend
    /\ UNCHANGED <<Models, now, LastRetry, LastCall, actual, silenced,
                   ModelListChanged, WasLoadedFromDepot, depotLoaded, crashed,
                   codec, LiveState>>

\* What a request may present as "known": nothing, or a value the state had.
Knowns == {NoKnown} \cup 0..LiveState

\* GET /tuya/status?known=..
StatusRequest(known) ==
    /\ Input
    /\ reply' = IF housestate_same(LiveState, known)
                THEN [code |-> 304, doc |-> <<>>, uri |-> "/tuya/status",
                      latest |-> -1]
                ELSE [code |-> 200, doc |-> housetuya_status(Devices),
                      uri |-> "/tuya/status",
                      latest |-> housestate_current(LiveState)]
    /\ events' = <<>>
    /\ frames' = <<>>
    /\ wrote' = <<>>
    /\ observed' = <<>>
    /\ returned' = <<>>
    /\ received' = <<>>
    /\ used' = Spend
    /\ UNCHANGED <<Devices, Models, now, LastRetry, LastCall, actual, lastSet,
                   pulseEnded, Sockets, silenced, DeviceListChanged,
                   ModelListChanged, WasLoadedFromDepot, depotLoaded, crashed,
                   codec, LiveState>>

\* A datagram arrives on one of the UDP ports.
Datagram(payload) ==
    /\ Input
    /\ \E o \in DiscoveryOutcomes(payload) :
          IF o.kind = "crash"
          THEN /\ crashed' = TRUE
               /\ Quiet
               /\ UNCHANGED <<Devices, Sockets, DeviceListChanged, pulseEnded,
                              silenced>>
          ELSE /\ Commit(IF o.kind = "ignored" THEN World(Devices)
                         ELSE housetuya_device_discovery(
                                  World(Devices), o.id, o.product, o.encrypt,
                                  now))
               /\ silenced' = IF o.kind = "ignored" THEN silenced
                              ELSE [silenced EXCEPT ![o.id] = FALSE]
               /\ wrote' = <<>>
               /\ reply' = NoReply
               /\ received' = <<>>
               /\ UNCHANGED crashed
    /\ used' = Spend
    /\ UNCHANGED <<Models, now, LastRetry, LastCall, actual, lastSet,
                   ModelListChanged, WasLoadedFromDepot, depotLoaded, codec,
                   LiveState>>

\* A beacon arrives: a well-formed datagram from device id, announcing its
\* product key and whether it encrypts.
Beacon(id, product, encrypt) == Datagram(Announce(id, product, encrypt))

\* The once-per-second tick: the sweep, then the configuration is saved if
\* one of the change flags was raised (housetuya_device_changed() ||
\* housetuya_model_changed(): the second flag is read and cleared only when
\* the first was down).
housetuya_background(Connects) ==
    /\ ~crashed
    /\ now # LastCall
    /\ LastCall' = now
    /\ \E c1 \in [DeviceIds -> Connects], c2 \in [DeviceIds -> Connects] :
          LET r == housetuya_device_periodic(World(Devices), now, LastRetry,
                                             c1, c2)
              w1 == [r.w EXCEPT !.chg = FALSE]
              w2 == IF DeviceListChanged \/ ModelListChanged
                    THEN housetuya_save_to_depot(w1, WasLoadedFromDepot)
                    ELSE w1
          IN  /\ Commit(w2)
              /\ LastRetry' = r.LastRetry
              /\ silenced' = [id \in DeviceIds |->
                                 Has(r.w.ev, "SILENT", id) \/ silenced[id]]
              /\ lastSet' = [id \in DeviceIds |->
                    [lastSet[id] EXCEPT !.sent =
                        \/ @
                        \/ /\ lastSet[id].eligible
                           /\ \E k \in 1..Len(r.w.fr) :
                                 r.w.fr[k] = <<id, ControlFrame(
                                                      lastSet[id].state)>>]]
    /\ ModelListChanged' = (DeviceListChanged /\ ModelListChanged)
    /\ wrote' = <<>>
    /\ reply' = NoReply
    /\ received' = <<>>
    /\ UNCHANGED <<Models, now, actual, used, WasLoadedFromDepot,
                   depotLoaded, crashed, codec, LiveState>>

\* The socket is writable.  obeyed: whether the device acts on a CONTROL.
housetuya_device_send(i, obeyed) ==
    LET dev == Devices[i]
    IN  /\ ~crashed
        /\ dev.socket >= 0
        /\ dev.listen = "write"
        /\ Devices' = [Devices EXCEPT ![i].out = NoFrame, ![i].listen = "read"]
        /\ wrote' = IF dev.out # NoFrame THEN <<<<dev.id, dev.out>>>> ELSE <<>>
        /\ actual' = IF dev.out.code = TUYA_CONTROL /\ obeyed
                     THEN [actual EXCEPT ![dev.id] = dev.out.value]
                     ELSE actual
        /\ events' = <<>>
        /\ frames' = <<>>
        /\ observed' = <<>>
        /\ reply' = NoReply
        /\ returned' = <<>>
        /\ received' = <<>>
        /\ UNCHANGED <<Models, now, LastRetry, LastCall, lastSet, pulseEnded,
                       used, Sockets, silenced, DeviceListChanged,
                       ModelListChanged, WasLoadedFromDepot, depotLoaded,
                       crashed, codec, LiveState>>

\* The socket is readable.  What was read:
\*   "eof"    read returned 0 or less
\*   "echo"   a frame with code CONTROL
\*   "short"  a frame that yields 4 bytes or less
\*   "other"  a frame that is neither STATUS nor QUERY, or whose payload has
\*            no boolean at .dps.<control>
\*   "status" a STATUS or QUERY frame reporting the device's state
\* (A frame whose prefix is wrong leaves the code unwritten: the test of the
\* code then reads an uninitialised value, and whichever way it goes the
\* function returns with nothing done, as for "short".)
\* Mutant: a frame that is no status report is taken for one.
ReceiveWorld_TrustsOther(w, i, kind, value, t) ==
    CASE kind = "eof" -> housetuya_device_close(w, i)
      [] kind = "echo" -> w
      [] kind = "short" -> w
      [] OTHER ->
            housetuya_device_status_update(housetuya_device_close(w, i), i,
                                           value, t)

ReceiveWorld(w, i, kind, value, t) ==
    CASE kind = "eof" -> housetuya_device_close(w, i)
      [] kind = "echo" -> w
      [] kind = "short" -> w
      [] kind = "other" -> housetuya_device_close(w, i)
      [] kind = "status" ->
            housetuya_device_status_update(housetuya_device_close(w, i), i,
                                           value, t)

housetuya_device_receive(i, kind) ==
    /\ ~crashed
    /\ Devices[i].socket >= 0
    /\ Devices[i].listen = "read"
    /\ Commit(ReceiveWorld(World(Devices), i, kind, actual[Devices[i].id],
                           now))
    /\ received' = <<<<Devices[i].id, kind>>>>
    /\ wrote' = <<>>
    /\ reply' = NoReply
    /\ UNCHANGED <<Models, now, LastRetry, LastCall, actual, lastSet, used,
                   silenced, ModelListChanged, WasLoadedFromDepot, depotLoaded,
                   crashed, codec, LiveState>>

\* Someone else switches the device.
ExternalChange(id) ==
    /\ Input
    /\ actual' = [actual EXCEPT ![id] = 1 - @]
    /\ Quiet
    /\ used' = Spend
    /\ UNCHANGED <<Devices, Models, now, LastRetry, LastCall, lastSet,
                   pulseEnded, Sockets, silenced, DeviceListChanged,
                   ModelListChanged, WasLoadedFromDepot, depotLoaded, crashed,
                   codec, LiveState>>

\* GET /tuya/config
ConfigExport ==
    /\ Input
    /\ reply' = [code |-> 200, doc |-> housetuya_export(Devices, Models),
                 uri |-> "/tuya/config", latest |-> -1]
    /\ events' = <<>>
    /\ frames' = <<>>
    /\ wrote' = <<>>
    /\ observed' = <<>>
    /\ returned' = <<>>
    /\ received' = <<>>
    /\ used' = Spend
    /\ UNCHANGED <<Devices, Models, now, LastRetry, LastCall, actual, lastSet,
                   pulseEnded, Sockets, silenced, DeviceListChanged,
                   ModelListChanged, WasLoadedFromDepot, depotLoaded, crashed,
                   codec, LiveState>>

\* POST /tuya/config.  valid: whether houseconfig_update accepts the document.
housetuya_config(doc, valid) ==
    /\ Input
    /\ IF valid
       THEN /\ Commit(housetuya_save_to_depot(
                          housetuya_device_refresh(World(Devices),
                                                   doc.devices),
                          WasLoadedFromDepot))
            /\ Models' = housetuya_model_refresh(Models, doc.models)
            /\ ModelListChanged' = (ModelListChanged \/ Models' # Models)
            /\ LiveState' = housestate_changed(LiveState)
            /\ reply' = [code |-> 200, doc |-> <<>>, uri |-> "/tuya/config",
                         latest |-> -1]
       ELSE /\ Commit(World(Devices))
            /\ reply' = [code |-> 400, doc |-> <<>>, uri |-> "/tuya/config",
                         latest |-> -1]
            /\ UNCHANGED <<Models, ModelListChanged, LiveState>>
    /\ wrote' = <<>>
    /\ received' = <<>>
    /\ used' = Spend
    /\ UNCHANGED <<now, LastRetry, LastCall, actual, lastSet, silenced,
                   WasLoadedFromDepot, depotLoaded, crashed, codec>>

\* The depot delivers a configuration.  valid: whether houseconfig_update
\* accepts the document.
housetuya_config_listener(doc, valid) ==
    /\ Input
    /\ LET w0 == [World(Devices) EXCEPT !.ev = <<<<"LOAD", "config">>>>]
       IN  IF valid
           THEN /\ Commit(housetuya_device_refresh(w0, doc.devices))
                /\ Models' = housetuya_model_refresh(Models, doc.models)
                /\ ModelListChanged' = (ModelListChanged \/ Models' # Models)
                /\ WasLoadedFromDepot' = TRUE
                /\ depotLoaded' = TRUE
           ELSE /\ Commit(w0)
                /\ UNCHANGED <<Models, ModelListChanged, WasLoadedFromDepot,
                               depotLoaded>>
    /\ wrote' = <<>>
    /\ reply' = NoReply
    /\ received' = <<>>
    /\ used' = Spend
    /\ UNCHANGED <<now, LastRetry, LastCall, actual, lastSet, silenced,
                   crashed, codec, LiveState>>

\* Time passes, up to the next sweep: the sweep ran in the second that ends,
\* so the background ticks of the seconds in between find nothing to sweep
\* (now < LastRetry + 5) and are not shown.
Tick ==
    /\ ~crashed
    /\ LastCall = now
    /\ LastRetry = now
    /\ used.ticks < MaxTicks
    /\ now' = now + RetryPeriod
    /\ used' = [used EXCEPT !.ticks = @ + 1]
    /\ Quiet
    /\ UNCHANGED <<Devices, Models, LastRetry, LastCall, actual, lastSet,
                   pulseEnded, Sockets, silenced, DeviceListChanged,
                   ModelListChanged, WasLoadedFromDepot, depotLoaded, crashed,
                   codec, LiveState>>

\* The process is not scheduled (or the wall clock steps) for a long time.
Pause ==
    /\ ~crashed
    /\ LastCall = now
    /\ LastRetry = now
    /\ used.pauses < MaxPauses
    /\ now' = now + LongPause
    /\ used' = [used EXCEPT !.pauses = @ + 1]
    /\ Quiet
    /\ UNCHANGED <<Devices, Models, LastRetry, LastCall, actual, lastSet,
                   pulseEnded, Sockets, silenced, DeviceListChanged,
                   ModelListChanged, WasLoadedFromDepot, depotLoaded, crashed,
                   codec, LiveState>>

\* The process is not scheduled for the length of a sense period.
Doze ==
    /\ ~crashed
    /\ LastCall = now
    /\ LastRetry = now
    /\ used.ticks < MaxTicks
    /\ now' = now + SensePeriod
    /\ used' = [used EXCEPT !.ticks = @ + 1]
    /\ Quiet
    /\ UNCHANGED <<Devices, Models, LastRetry, LastCall, actual, lastSet,
                   pulseEnded, Sockets, silenced, DeviceListChanged,
                   ModelListChanged, WasLoadedFromDepot, depotLoaded, crashed,
                   codec, LiveState>>

Init ==
    /\ Devices = <<>>
    /\ Models = [id \in {"keyA"} |->
                    [name |-> "plug", control |-> KnownControl]]
    /\ now = StartTime
    /\ LastRetry = 0
    /\ LastCall = 0
    /\ events = <<>>
    /\ frames = <<>>
    /\ wrote = <<>>
    /\ observed = <<>>
    /\ actual \in [DeviceIds -> {0, 1}]
    /\ lastSet = [id \in DeviceIds |-> NoSet]
    /\ pulseEnded = [id \in DeviceIds |-> FALSE]
    /\ used = [ticks |-> 0, pauses |-> 0, inputs |-> 0]
    /\ Sockets = {}
    /\ reply = NoReply
    /\ silenced = [id \in DeviceIds |-> FALSE]
    /\ DeviceListChanged = FALSE
    /\ ModelListChanged = FALSE
    /\ WasLoadedFromDepot = FALSE
    /\ depotLoaded = FALSE
    /\ returned = <<>>
    /\ received = <<>>
    /\ crashed = FALSE
    /\ codec = NoCodec
    /\ LiveState = 0

Next ==
    \/ \E req \in Requests : SetRequest(req, BOOLEAN)
    \/ \E known \in Knowns : StatusRequest(known)
    \/ \E id \in DeviceIds, b \in Beacons : Beacon(id, b.product, b.encrypt)
    \/ housetuya_background(BOOLEAN)
    \/ \E i \in Dev(Devices), obeyed \in BOOLEAN :
          housetuya_device_send(i, obeyed)
    \/ \E i \in Dev(Devices),
          kind \in {"eof", "echo", "short", "other", "status"} :
          housetuya_device_receive(i, kind)
    \/ \E id \in DeviceIds : ExternalChange(id)
    \/ \E doc \in Documents : housetuya_config(doc, TRUE)
    \/ Tick
    \/ Pause

Spec == Init /\ [][Next]_vars

\* The devices are reachable and answer every command, and nobody else
\* switches them: every connection opens, every CONTROL written is acted on, and
\* what a socket reads is the echo of the command or the device's state.
NextObedient ==
    \/ \E req \in Requests : SetRequest(req, {TRUE})
    \/ \E id \in DeviceIds : Beacon(id, "keyA", FALSE)
    \/ housetuya_background({TRUE})
    \/ \E i \in Dev(Devices) : housetuya_device_send(i, TRUE)
    \/ \E i \in Dev(Devices), kind \in {"echo", "status"} :
          housetuya_device_receive(i, kind)
    \/ Tick

SpecObedient == Init /\ [][NextObedient]_vars

\* As above, and the devices answer at once: every exchange on a socket has
\* ended (the status came back and closed it) before the next sweep.
AllAnswered == \A i \in Dev(Devices) : Devices[i].socket = -1

NextResponsive ==
    \/ \E req \in Requests : SetRequest(req, {TRUE})
    \/ \E id \in DeviceIds : Beacon(id, "keyA", FALSE)
    \/ housetuya_background({TRUE})
    \/ \E i \in Dev(Devices) : housetuya_device_send(i, TRUE)
    \/ \E i \in Dev(Devices), kind \in {"echo", "status"} :
          housetuya_device_receive(i, kind)
    \/ AllAnswered /\ Tick

SpecResponsive == Init /\ [][NextResponsive]_vars

\* Obedient devices over a long run: the beacons may stop for a long time
\* while the devices keep answering.
NextLongRun ==
    \/ \E req \in Requests : SetRequest(req, {TRUE})
    \/ \E id \in DeviceIds : Beacon(id, "keyA", FALSE)
    \/ housetuya_background({TRUE})
    \/ \E i \in Dev(Devices) : housetuya_device_send(i, TRUE)
    \/ \E i \in Dev(Devices), kind \in {"echo", "status"} :
          housetuya_device_receive(i, kind)
    \/ Tick
    \/ Doze
    \/ Pause

SpecLongRun == Init /\ [][NextLongRun]_vars

\* Obedient devices that keep announcing themselves: the beacon a device
\* broadcasts every few seconds reaches the process in every second the model
\* shows, so that no device goes silent, and the process is scheduled: the
\* background tick runs, the sockets are served and time passes.
KeepAlive(id) ==
    /\ ~crashed
    /\ LastCall = now
    /\ Known(id)
    /\ Row(id).detected # now
    /\ Commit(housetuya_device_discovery(World(Devices), id, Row(id).model,
                                         Row(id).encrypted, now))
    /\ silenced' = [silenced EXCEPT ![id] = FALSE]
    /\ wrote' = <<>>
    /\ reply' = NoReply
    /\ received' = <<>>
    /\ UNCHANGED <<Models, now, LastRetry, LastCall, actual, lastSet, used,
                   ModelListChanged, WasLoadedFromDepot, depotLoaded, crashed,
                   codec, LiveState>>

Beaconed == \A i \in Dev(Devices) : Devices[i].detected = now
Served == \E i \in Dev(Devices) : housetuya_device_send(i, TRUE)
Answered ==
    \E i \in Dev(Devices), kind \in {"echo", "status"} :
        housetuya_device_receive(i, kind)

NextSense ==
    \/ \E req \in Requests : SetRequest(req, {TRUE})
    \/ \E id \in DeviceIds : Beacon(id, "keyA", FALSE)
    \/ \E id \in DeviceIds : KeepAlive(id)
    \/ housetuya_background({TRUE})
    \/ Served
    \/ Answered
    \/ Beaconed /\ Doze

\* The fairness of the schedule.  The background tick and the beacon each
\* disable themselves, so their weak fairness is that they are disabled again
\* and again: the tick is not left due (Due), a known device is not left
\* unannounced in the current second (Unannounced).
Due == ~crashed /\ now # LastCall
Unannounced ==
    \E id \in DeviceIds :
        ~crashed /\ LastCall = now /\ Known(id) /\ Row(id).detected # now

SpecSense ==
    /\ Init
    /\ [][NextSense]_vars
    /\ []<>~Due
    /\ []<>~Unannounced
    /\ WF_vars(Served)
    /\ WF_vars(Beaconed /\ Doze)

\* The full environment, with devices that announce that they encrypt.
NextSecured ==
    \/ \E req \in Requests : SetRequest(req, BOOLEAN)
    \/ \E id \in DeviceIds, b \in BeaconsSecured :
          Beacon(id, b.product, b.encrypt)
    \/ housetuya_background(BOOLEAN)
    \/ \E i \in Dev(Devices), obeyed \in BOOLEAN :
          housetuya_device_send(i, obeyed)
    \/ \E i \in Dev(Devices),
          kind \in {"eof", "echo", "short", "other", "status"} :
          housetuya_device_receive(i, kind)
    \/ \E doc \in Documents : housetuya_config(doc, TRUE)
    \/ Tick

SpecSecured == Init /\ [][NextSecured]_vars

\* Obedient devices, and an administrator: the configuration is read, posted
\* back or replaced, and the depot delivers configurations.
Posted == Documents \cup (IF reply.uri = "/tuya/config" /\ reply.code = 200
                             /\ reply.doc # <<>>
                          THEN {reply.doc} ELSE {})

NextDepot ==
    \/ \E req \in Requests : SetRequest(req, {TRUE})
    \/ \E id \in DeviceIds : Beacon(id, "keyA", FALSE)
    \/ housetuya_background({TRUE})
    \/ \E i \in Dev(Devices) : housetuya_device_send(i, TRUE)
    \/ \E i \in Dev(Devices), kind \in {"echo", "status"} :
          housetuya_device_receive(i, kind)
    \/ ConfigExport
    \/ \E doc \in Posted, valid \in BOOLEAN : housetuya_config(doc, valid)
    \/ \E doc \in Documents, valid \in BOOLEAN :
          housetuya_config_listener(doc, valid)
    \/ Tick

SpecDepot == Init /\ [][NextDepot]_vars

\* Obedient devices on a network where anything may arrive on the UDP ports.
NextDatagram ==
    \/ \E req \in Requests : SetRequest(req, {TRUE})
    \/ \E payload \in Datagrams : Datagram(payload)
    \/ housetuya_background({TRUE})
    \/ \E i \in Dev(Devices) : housetuya_device_send(i, TRUE)
    \/ \E i \in Dev(Devices), kind \in {"echo", "status"} :
          housetuya_device_receive(i, kind)
    \/ Tick

SpecDatagram == Init /\ [][NextDatagram]_vars

\* The encoder and the decoder, on their own.
CommandText(c) ==
    IF c.code = TUYA_CONTROL
    THEN ControlText(c.access.id, c.t, c.dps, c.value)
    ELSE QueryText(c.access.id, c.t)

Encode ==
    /\ codec.stage = "command"
    /\ codec' = [stage |-> "frame", command |-> codec,
                 frame |-> IF codec.code = TUYA_CONTROL
                           THEN housetuya_control(codec.access, codec.sequence,
                                                  codec.dps, codec.value,
                                                  codec.t)
                           ELSE housetuya_query(codec.access, codec.sequence,
                                                codec.t)]
    /\ UNCHANGED <<Devices, Models, now, LastRetry, LastCall, events, frames,
                   wrote, observed, actual, lastSet, pulseEnded, used, Sockets,
                   reply, silenced, DeviceListChanged, ModelListChanged,
                   WasLoadedFromDepot, depotLoaded, returned, received,
                   crashed, LiveState>>

Decode ==
    /\ codec.stage = "frame"
    /\ codec' = [stage |-> "decoded", command |-> codec.command,
                 frame |-> codec.frame,
                 result |-> housetuya_extract(codec.command.access,
                                              codec.frame)]
    /\ UNCHANGED <<Devices, Models, now, LastRetry, LastCall, events, frames,
                   wrote, observed, actual, lastSet, pulseEnded, used, Sockets,
                   reply, silenced, DeviceListChanged, ModelListChanged,
                   WasLoadedFromDepot, depotLoaded, returned, received,
                   crashed, LiveState>>

\* A frame arrives from the network.
Arrive(kind) ==
    /\ codec.stage = "frame"
    /\ codec' = [stage |-> "raw", command |-> codec.command,
                 variant |-> kind, frame |-> Variant(codec.frame, kind)]
    /\ UNCHANGED <<Devices, Models, now, LastRetry, LastCall, events, frames,
                   wrote, observed, actual, lastSet, pulseEnded, used, Sockets,
                   reply, silenced, DeviceListChanged, ModelListChanged,
                   WasLoadedFromDepot, depotLoaded, returned, received,
                   crashed, LiveState>>

\* The frame that arrived goes through housetuya_extract, with the device's
\* secret (a TCP session) or without one (the UDP port 6666).  Without a
\* secret a negative length is given to memcpy as a size: the process
\* crashes, or it survives and the negative length is returned.
Extract(keyed) ==
    /\ codec.stage = "raw"
    /\ LET secret == IF keyed THEN codec.command.access ELSE Null
           result == housetuya_extract(secret, codec.frame)
       IN  \E crash \in IF ~keyed /\ result.length < 0 THEN BOOLEAN
                         ELSE {FALSE} :
              codec' = [stage |-> "extracted", command |-> codec.command,
                        variant |-> codec.variant, keyed |-> keyed,
                        crash |-> crash, result |-> result]
    /\ UNCHANGED <<Devices, Models, now, LastRetry, LastCall, events, frames,
                   wrote, observed, actual, lastSet, pulseEnded, used, Sockets,
                   reply, silenced, DeviceListChanged, ModelListChanged,
                   WasLoadedFromDepot, depotLoaded, returned, received,
                   crashed, LiveState>>

InitCodec ==
    /\ Devices = <<>>
    /\ Models = [id \in {"keyA"} |->
                    [name |-> "plug", control |-> KnownControl]]
    /\ now = StartTime
    /\ LastRetry = 0
    /\ LastCall = 0
    /\ events = <<>>
    /\ frames = <<>>
    /\ wrote = <<>>
    /\ observed = <<>>
    /\ actual = [id \in DeviceIds |-> 0]
    /\ lastSet = [id \in DeviceIds |-> NoSet]
    /\ pulseEnded = [id \in DeviceIds |-> FALSE]
    /\ used = [ticks |-> 0, pauses |-> 0, inputs |-> 0]
    /\ Sockets = {}
    /\ reply = NoReply
    /\ silenced = [id \in DeviceIds |-> FALSE]
    /\ DeviceListChanged = FALSE
    /\ ModelListChanged = FALSE
    /\ WasLoadedFromDepot = FALSE
    /\ depotLoaded = FALSE
    /\ returned = <<>>
    /\ received = <<>>
    /\ crashed = FALSE
    /\ codec \in CodecInputs
    /\ LiveState = 0

NextCodec ==
    \/ Encode
    \/ Decode
    \/ \E kind \in FrameVariants : Arrive(kind)
    \/ \E keyed \in BOOLEAN : Extract(keyed)

SpecCodec == InitCodec /\ [][NextCodec]_vars

\* ------------------------------------------------------------------ claims

RowAfter(id) == Devices'[housetuya_device_id_search(Devices', id)]
Staged(fr, id, frame) == \E k \in 1..Len(fr) : fr[k] = <<id, frame>>
StagedAny(fr, id) == \E k \in 1..Len(fr) : fr[k][1] = id
StagedControl(fr, id) ==
    \E k \in 1..Len(fr) : fr[k][1] = id /\ fr[k][2].code = TUYA_CONTROL
ResolvedControl(dev) ==
    IF dev.control > 0 THEN dev.control
    ELSE housetuya_model_get_control(dev.model)
Sweep == LastRetry' # LastRetry

\* C1 (as claimed): a set request makes commanded the requested state and
\* deadline now+pulse (0 without pulse); when pending was 0 it arms pending
\* to now+10 and stages a CONTROL frame carrying the state if the device is
\* detected, and none if it is not.
C1_SetTransmitsIfDetected ==
    [][\A id \in DeviceIds :
          (Known(id) /\ Has(events', "SET", id)) =>
             LET dev == Row(id)
                 after == RowAfter(id)
                 req == lastSet'[id]
             IN  /\ after.commanded = req.state
                 /\ after.deadline = req.until
                 /\ dev.pending = 0 =>
                       /\ after.pending = now + SetPendingDelay
                       /\ dev.detected # 0 =>
                             Staged(frames', id, ControlFrame(req.state))
                       /\ dev.detected = 0 => ~StagedAny(frames', id)]_vars

\* C1 (amended): as above, but the CONTROL frame is staged exactly when the
\* device is detected, its control data point resolves (cached in the row or
\* found in the model registry) and the connection to the device opens.
C1_SetTransmitsIfAccepted ==
    [][\A id \in DeviceIds :
          (Known(id) /\ Has(events', "SET", id)) =>
             LET dev == Row(id)
                 after == RowAfter(id)
                 req == lastSet'[id]
             IN  /\ after.commanded = req.state
                 /\ after.deadline = req.until
                 /\ dev.pending = 0 =>
                       /\ after.pending = now + SetPendingDelay
                       /\ Staged(frames', id, ControlFrame(req.state)) <=>
                             /\ dev.detected # 0
                             /\ ResolvedControl(dev) > 0
                             /\ after.socket >= 0
                       /\ ~Staged(frames', id, ControlFrame(req.state)) =>
                             ~StagedAny(frames', id)]_vars

\* A pulsed set request has just armed pending and staged its command.
C1_Witness ==
    \E id \in DeviceIds :
        /\ Known(id)
        /\ Has(events, "SET", id)
        /\ Row(id).pending = now + SetPendingDelay
        /\ Row(id).deadline = now + PulseLen
        /\ Staged(frames, id, ControlFrame(1))

\* C2: no CONTROL frame is staged, held in the out buffer or written for a
\* device whose detected field is 0.
C2_NoControlToUndetected ==
    \A id \in DeviceIds :
        (Known(id) /\ Row(id).detected = 0) =>
            /\ ~StagedControl(frames, id)
            /\ ~StagedControl(wrote, id)
            /\ Row(id).out.code # TUYA_CONTROL

\* A set request has just armed pending on a device that went silent (its
\* address is still known), and nothing was staged.
C2_Witness ==
    \E id \in DeviceIds :
        /\ Known(id)
        /\ Row(id).detected = 0
        /\ Row(id).ipaddress # 0
        /\ Has(events, "SET", id)
        /\ Row(id).pending = now + SetPendingDelay
        /\ Row(id).commanded # Row(id).status

C4_SetWhilePending ==
    [][\A id \in DeviceIds :
          (Known(id) /\ Has(events', "SET", id) /\ Row(id).pending # 0) =>
             LET dev == Row(id)
                 after == RowAfter(id)
             IN  /\ after.commanded = lastSet'[id].state
                 /\ after.deadline = lastSet'[id].until
                 /\ after.pending = dev.pending
                 /\ after.socket = dev.socket
                 /\ after.out = dev.out
                 /\ ~StagedAny(frames', id)]_vars

\* A set request has just changed commanded and deadline while an earlier
\* command was pending.
C4_Witness ==
    \E id \in DeviceIds :
        /\ Known(id)
        /\ Has(events, "SET", id)
        /\ Row(id).pending # 0
        /\ Row(id).pending # now + SetPendingDelay
        /\ Row(id).commanded = 1
        /\ Row(id).deadline = now + PulseLen

\* C5: the status update with observed value v leaves status = v and
\* detected = now; an unchanged value leaves commanded and pending alone; a
\* changed one clears pending, and is CONFIRMED with commanded unchanged when
\* pending was nonzero and v is the commanded value, else CHANGED with
\* commanded = v.
C5_StatusUpdate ==
    [][\A id \in DeviceIds, v \in {0, 1} :
          (Known(id) /\ observed' = <<<<id, v>>>>) =>
             LET dev == Row(id)
                 after == RowAfter(id)
             IN  /\ after.status = v
                 /\ after.detected = now
                 /\ after.deadline = dev.deadline
                 /\ v = dev.status =>
                       /\ after.commanded = dev.commanded
                       /\ after.pending = dev.pending
                       /\ events' = <<>>
                 /\ v # dev.status =>
                       /\ after.pending = 0
                       /\ IF dev.pending # 0 /\ v = dev.commanded
                          THEN /\ events' = <<<<"CONFIRMED", id>>>>
                               /\ after.commanded = dev.commanded
                          ELSE /\ events' = <<<<"CHANGED", id>>>>
                               /\ after.commanded = v]_vars

\* A report has just confirmed a pending command.
C5_Witness ==
    \E id \in DeviceIds :
        /\ Known(id)
        /\ observed = <<<<id, 1>>>>
        /\ events = <<<<"CONFIRMED", id>>>>
        /\ Row(id).status = 1
        /\ Row(id).pending = 0

\* C6 (as claimed): a pending deadline is resolved by the first sweep that
\* finds it reached: once a sweep has run at time now, no device is left with
\* a pending deadline that is not in the future.
C6_PendingResolvedBySweep ==
    \A id \in DeviceIds :
        (Known(id) /\ LastRetry = now) =>
            (Row(id).pending = 0 \/ Row(id).pending > now)

\* C7 (as claimed): the sweep that finds a pulse deadline reached (and does
\* not declare the device silent) emits RESET once, leaves commanded = 0,
\* deadline = 0 and pending = now+5, and stages CONTROL(off) if the device
\* is detected and its status is on.
C7_PulseExpirySendsOff ==
    [][\A id \in DeviceIds :
          (/\ Known(id)
           /\ Sweep
           /\ Row(id).deadline > 0
           /\ now >= Row(id).deadline
           /\ ~Has(events', "SILENT", id)) =>
             LET dev == Row(id)
                 after == RowAfter(id)
             IN  /\ Count(events', "RESET", id) = 1
                 /\ after.commanded = 0
                 /\ after.deadline = 0
                 /\ after.pending = now + PulsePendingDelay
                 /\ (after.detected # 0 /\ dev.status = 1) =>
                       Staged(frames', id, ControlFrame(0))]_vars

\* C7 (amended): as above, but CONTROL(off) is staged exactly when the device
\* is detected, its status is on and the connection to it opens.
C7_PulseExpirySendsOffIfConnected ==
    [][\A id \in DeviceIds :
          (/\ Known(id)
           /\ Sweep
           /\ Row(id).deadline > 0
           /\ now >= Row(id).deadline
           /\ ~Has(events', "SILENT", id)) =>
             LET dev == Row(id)
                 after == RowAfter(id)
             IN  /\ Count(events', "RESET", id) = 1
                 /\ after.commanded = 0
                 /\ after.deadline = 0
                 /\ after.pending = now + PulsePendingDelay
                 /\ Staged(frames', id, ControlFrame(0)) <=>
                       /\ after.detected # 0
                       /\ dev.status = 1
                       /\ after.socket >= 0]_vars

\* A sweep has just ended the pulse of a device that is on and staged the
\* off command.
C7_Witness ==
    \E id \in DeviceIds :
        /\ Known(id)
        /\ LastRetry = now
        /\ Has(events, "RESET", id)
        /\ Row(id).status = 1
        /\ Row(id).commanded = 0
        /\ Row(id).pending = now + PulsePendingDelay
        /\ Staged(frames, id, ControlFrame(0))

\* C8 (as claimed): after set(d, on, P) on a detected device that answers
\* every command, commanded is 1 at every time before t+P, and has returned
\* to 0 by the sweep of time t+P+5.
C8_PulseContract ==
    \A id \in DeviceIds :
        (/\ Known(id)
         /\ lastSet[id].valid
         /\ lastSet[id].state = 1
         /\ lastSet[id].until > 0
         /\ lastSet[id].detected) =>
            /\ now < lastSet[id].until => Row(id).commanded = 1
            /\ (now >= lastSet[id].until + PulsePendingDelay
                   /\ LastRetry = now) =>
                  (pulseEnded[id] \/ Row(id).commanded = 0)

\* C9 (as claimed): once the pulse of an on-command has expired, commanded
\* stays 0 (until the next set request), whenever the device's reply to the
\* on-command arrives.
C9_PulseExpiryWins ==
    \A id \in DeviceIds :
        (/\ Known(id)
         /\ pulseEnded[id]
         /\ lastSet[id].state = 1
         /\ lastSet[id].detected) => Row(id).commanded = 0

\* C10: a sweep that finds detected > 0 and detected < now-100 emits one
\* SILENT event and leaves status, commanded, pending, deadline and detected
\* at 0 and the socket closed; no SILENT event is emitted for a device whose
\* detected is 0.
C10_Silence ==
    /\ [](\A id \in DeviceIds :
            (Known(id) /\ Has(events, "SILENT", id)) =>
                /\ Count(events, "SILENT", id) = 1
                /\ Row(id).status = 0
                /\ Row(id).commanded = 0
                /\ Row(id).pending = 0
                /\ Row(id).deadline = 0
                /\ Row(id).detected = 0
                /\ Row(id).socket = -1
                /\ Row(id).out = NoFrame)
    /\ [][\A id \in DeviceIds :
            Known(id) =>
               /\ (Sweep /\ Row(id).detected > 0
                      /\ Row(id).detected < now - SilenceDelay) =>
                     Has(events', "SILENT", id)
               /\ Row(id).detected = 0 => ~Has(events', "SILENT", id)]_vars

\* A sweep has just declared silent a device that had a command pending and
\* a pulse running.
C10_Witness ==
    \E id \in DeviceIds :
        /\ Known(id)
        /\ Has(events, "SILENT", id)
        /\ lastSet[id].valid
        /\ lastSet[id].state = 1
        /\ lastSet[id].until > 0

KnownAfter(id) == housetuya_device_id_search(Devices', id) > 0
BeaconStep(id) ==
    \E b \in BeaconsSecured : Beacon(id, b.product, b.encrypt)
SetStep(req) == SetRequest(req, BOOLEAN)

\* C11 (as claimed): once a device went SILENT, no CONTROL frame is staged
\* or written for it until a beacon carrying its id has arrived.
C11_NoControlUntilBeacon ==
    \A id \in DeviceIds :
        (Known(id) /\ silenced[id]) =>
            /\ ~StagedControl(frames, id)
            /\ ~StagedControl(wrote, id)

\* C12 (as claimed): pending is never negative, and while it is nonzero
\* commanded is the state the most recent set request asked for.
C12_PendingMeansLastSet ==
    \A id \in DeviceIds :
        Known(id) =>
            /\ Row(id).pending >= 0
            /\ Row(id).pending > 0 =>
                  /\ lastSet[id].valid
                  /\ Row(id).commanded = lastSet[id].state

\* C12 (amended): pending is never negative, and while it is nonzero
\* commanded is the state the most recent set request asked for, or 0 (off)
\* once the pulse of that request has expired.
C12_PendingMeansLastSetOrPulseEnd ==
    \A id \in DeviceIds :
        Known(id) =>
            /\ Row(id).pending >= 0
            /\ Row(id).pending > 0 =>
                  /\ lastSet[id].valid
                  /\ Row(id).commanded =
                        IF pulseEnded[id] THEN 0 ELSE lastSet[id].state

\* The pulse of an on-request has expired: pending is armed for the
\* off-command, and commanded is no longer what the request asked for.
C12_Witness ==
    \E id \in DeviceIds :
        /\ Known(id)
        /\ Row(id).pending > 0
        /\ pulseEnded[id]
        /\ lastSet[id].state = 1
        /\ Row(id).commanded = 0

\* C13 (as claimed): every step that takes a device's detected field from 0
\* (or from no row at all) to nonzero logs a DETECTED event for it and leaves
\* its last_sense at 0.
C13_DetectedTransition ==
    [][\A id \in DeviceIds :
          (/\ KnownAfter(id)
           /\ RowAfter(id).detected # 0
           /\ (Known(id) => Row(id).detected = 0)) =>
             /\ Has(events', "DETECTED", id)
             /\ RowAfter(id).last_sense = 0]_vars

\* The fields of a row a beacon is said to leave alone: all but the address,
\* detected, model and encrypted.
BeaconKeeps(dev) ==
    [name |-> dev.name, id |-> dev.id, socket |-> dev.socket,
     listen |-> dev.listen, status |-> dev.status,
     commanded |-> dev.commanded, pending |-> dev.pending,
     deadline |-> dev.deadline, last_sense |-> dev.last_sense,
     out |-> dev.out, control |-> dev.control, key |-> dev.key]

\* C14 (as claimed): processing a beacon changes pending, commanded and
\* deadline of no device, and on a row that exists it changes no field other
\* than the address, detected, model and encrypted.
C14_BeaconTouchesOnly ==
    [][\A id \in DeviceIds :
          BeaconStep(id) =>
             /\ \A i \in Dev(Devices) :
                   /\ Devices'[i].pending = Devices[i].pending
                   /\ Devices'[i].commanded = Devices[i].commanded
                   /\ Devices'[i].deadline = Devices[i].deadline
             /\ Known(id) => BeaconKeeps(RowAfter(id)) = BeaconKeeps(Row(id))
       ]_vars

\* C14 (amended): as above, but the beacon of a device whose detected is 0
\* also sets its last_sense to 0.
C14_BeaconTouchesOnlyAndLastSense ==
    [][\A id \in DeviceIds :
          BeaconStep(id) =>
             /\ \A i \in Dev(Devices) :
                   /\ Devices'[i].pending = Devices[i].pending
                   /\ Devices'[i].commanded = Devices[i].commanded
                   /\ Devices'[i].deadline = Devices[i].deadline
                   /\ Devices'[i].id # id => Devices'[i] = Devices[i]
             /\ Known(id) =>
                   BeaconKeeps(RowAfter(id)) =
                      [BeaconKeeps(Row(id)) EXCEPT
                          !.last_sense = IF Row(id).detected = 0 THEN 0 ELSE @]
       ]_vars

\* The beacon of a device that was not detected has arrived while a command
\* was pending for it and it had been sensed before.
C14_Witness ==
    \E id \in DeviceIds :
        /\ Known(id)
        /\ events = <<<<"DETECTED", id>>>>
        /\ Row(id).detected = now
        /\ Row(id).last_sense = 0
        /\ Row(id).pending > 0
        /\ Row(id).commanded = 1
        /\ Row(id).encrypted
        /\ lastSet[id].valid

\* C15: no two rows of the device table have the same id, and a row keeps
\* its place and its id: a configuration entry or a beacon whose id is in
\* the table adds no row.
C15_UniqueIds ==
    /\ [](\A i \in Dev(Devices), j \in Dev(Devices) :
             i # j => Devices[i].id # Devices[j].id)
    /\ [][/\ Len(Devices') >= Len(Devices)
          /\ \A i \in Dev(Devices) : Devices'[i].id = Devices[i].id
          /\ \A id \in DeviceIds :
                Known(id) =>
                   Cardinality({i \in Dev(Devices') : Devices'[i].id = id}) = 1
       ]_vars

\* A device found by its beacon is still one row after a configuration that
\* lists its id twice was loaded.
C15_Witness ==
    \E id \in DeviceIds :
        /\ Known(id)
        /\ Len(Devices) = 1
        /\ Row(id).ipaddress # 0
        /\ Row(id).key = "k16"
        /\ Row(id).name = "lamp"

\* C16: a row's open socket is a descriptor the process holds, every
\* descriptor the process holds is the socket of exactly one row, and a row
\* with no open socket has an empty out buffer.
C16_SocketOwnership ==
    /\ \A i \in Dev(Devices) :
          /\ Devices[i].socket >= 0 => Devices[i].socket \in Sockets
          /\ Devices[i].socket < 0 => Devices[i].out = NoFrame
    /\ \A fd \in Sockets :
          Cardinality({i \in Dev(Devices) : Devices[i].socket = fd}) = 1

\* A retry has just opened a connection for a device (closing the one of the
\* set request, if it was still open).
C16_Witness ==
    \E id \in DeviceIds :
        /\ Known(id)
        /\ Has(events, "RETRY", id)
        /\ StagedControl(frames, id)
        /\ Row(id).socket >= 0
        /\ Sockets = {Row(id).socket}

\* The cases in which the command-send path is said to reject a device.
Rejected(dev) ==
    \/ dev.ipaddress = 0
    \/ dev.encrypted /\ dev.key = ""
    \/ ResolvedControl(dev) <= 0

\* C17 (as claimed): no CONTROL frame is staged for a device whose address
\* is unknown, or that encrypts and has no key, or whose control dps does not
\* resolve; and a set request or a retry that is rejected so leaves the
\* device's socket and out buffer as they were.
C17_SendRejects ==
    /\ [](\A id \in DeviceIds :
            (Known(id) /\ Rejected(Row(id))) => ~StagedControl(frames, id))
    /\ [][\A id \in DeviceIds :
            (/\ Known(id)
             /\ Rejected(Row(id))
             /\ Has(events', "SET", id) \/ Has(events', "RETRY", id)) =>
                /\ RowAfter(id).socket = Row(id).socket
                /\ RowAfter(id).out = Row(id).out]_vars

\* C18 (as claimed): no handler stages a CONTROL frame for a device whose
\* model, as it is when the handler runs, resolves to dps 0 in the model
\* registry.
C18_NoControlWithoutDps ==
    \A id \in DeviceIds :
        (Known(id) /\ housetuya_model_get_control(Row(id).model) = 0) =>
            ~StagedControl(frames, id)

\* The requests that are said to be refused: no point, no state, a state
\* that is none of on, off, 1, 0, a pulse that is not a number or is
\* negative, a point that names no device.
NumberText(text) ==
    /\ Len(text) > 0
    /\ \A k \in 1..Len(text) : IsDigit(text[k])
BadRequest(req) ==
    \/ "point" \notin DOMAIN req
    \/ "state" \notin DOMAIN req
    \/ req.state \notin {"on", "off", "1", "0"}
    \/ "pulse" \in DOMAIN req /\ ~NumberText(req.pulse)
    \/ \A i \in Dev(Devices) :
          req.point # "all" /\ req.point # Devices[i].name

\* C19 (as claimed): a request that is refused is answered with an error,
\* changes no device and stages no frame.
C19_BadRequestNoEffect ==
    [][\A req \in Requests :
          (BadRequest(req) /\ SetStep(req)) =>
             /\ reply'.code \in {400, 404}
             /\ Devices' = Devices
             /\ frames' = <<>>
             /\ events' = <<>>]_vars

\* C20 (as claimed): in a status document the command field of a device is
\* there exactly when its commanded value differs from its status, in which
\* case it tells the commanded value, and the pulse field exactly when its
\* deadline is above 0.
C20_StatusDocument ==
    (reply.code = 200 /\ reply.uri # "/tuya/config") =>
        \A i \in Dev(Devices) :
            LET dev == Devices[i]
                point == reply.doc[i]
            IN  /\ point.name = dev.name
                /\ "command" \in DOMAIN point <=> dev.commanded # dev.status
                /\ "command" \in DOMAIN point =>
                      point.command = IF dev.commanded = 1 THEN "on" ELSE "off"
                /\ "pulse" \in DOMAIN point <=> dev.deadline > 0
                /\ "pulse" \in DOMAIN point => point.pulse = dev.deadline

\* C21: the configuration is written to the depot (a SAVE event, from a config
\* POST or from the background tick after the device list changed) only in
\* states where a configuration has been loaded successfully from the depot
\* before; without such a load there is never a depot write.
C21_DepotWriteOnlyAfterLoad ==
    Has(events, "SAVE", "config") => depotLoaded

\* The background tick saves to the depot after a beacon changed the list.
C21_Witness ==
    /\ Has(events, "SAVE", "config")
    /\ reply.uri # "/tuya/config"
    /\ depotLoaded

\* C22 (as claimed): for every device id, key, version, dps and value, the
\* decoder given the CONTROL or QUERY frame the encoder made, and the same
\* secret, succeeds and returns exactly the JSON text that was encrypted,
\* with the frame's command code and sequence number.
C22_CodecRoundTrip ==
    codec.stage = "decoded" =>
        /\ codec.result.length > 0
        /\ codec.result.data = CommandText(codec.command)
        /\ codec.result.code = codec.command.code
        /\ codec.result.sequence = codec.command.sequence

\* C23 (as claimed): posting back to /tuya/config the document that GET
\* /tuya/config just returned leaves the device table and the model table as
\* they were before the POST, whatever state the devices are in (pending
\* command, running pulse, open socket).
RoundTrip ==
    /\ reply.uri = "/tuya/config"
    /\ reply.code = 200
    /\ reply.doc # <<>>
    /\ housetuya_config(reply.doc, TRUE)

C23_ConfigRoundTrip ==
    [][RoundTrip => (Devices' = Devices /\ Models' = Models)]_vars

\* C24 (as claimed): housetuya_device_set returns 1 whenever it is applied to
\* a known device, and 0 only when the point designates no known device.
C24_SetReturnsOne ==
    \A k \in 1..Len(returned) :
        /\ Known(returned[k][1]) => returned[k][2] = 1
        /\ returned[k][2] = 0 => ~Known(returned[k][1])

\* C28 (as claimed): once the readable callback has handled anything but a
\* CONTROL echo (a frame of whatever code or content, or a read of 0 or
\* less), the device's socket is closed.
C28_ClosedAfterFrame ==
    \A k \in 1..Len(received) :
        received[k][2] # "echo" => Row(received[k][1]).socket = -1

\* C29: a frame read from a socket that is neither a STATUS nor a QUERY, or
\* has no boolean at .dps.<control>, or does not decode, leaves status,
\* commanded, pending, deadline and detected of every device as they were.
Ignored(i) == \E kind \in {"other", "short"} : housetuya_device_receive(i, kind)

C29_IgnoredFrameKeepsState ==
    [][\A i \in Dev(Devices) :
          Ignored(i) =>
             /\ Len(Devices') = Len(Devices)
             /\ \A j \in Dev(Devices) :
                   /\ Devices'[j].status = Devices[j].status
                   /\ Devices'[j].commanded = Devices[j].commanded
                   /\ Devices'[j].pending = Devices[j].pending
                   /\ Devices'[j].deadline = Devices[j].deadline
                   /\ Devices'[j].detected = Devices[j].detected]_vars

\* Such a frame was read from a device that has a command pending which the
\* device has not carried out.
C29_Witness ==
    \E id \in DeviceIds :
        /\ received = <<<<id, "other">>>>
        /\ Row(id).pending > 0
        /\ Row(id).commanded # Row(id).status
        /\ actual[id] # Row(id).status

\* What the reconciliation step of the sweep that is running finds in the
\* row of device id: the row as the steps before it (silence detection,
\* pulse expiry) of the same sweep left it.
AtReconcile(id) ==
    LET dev == Row(id)
    IN  IF Has(events', "SILENT", id)
        THEN [dev EXCEPT !.status = 0, !.commanded = 0, !.pending = 0,
                         !.detected = 0]
        ELSE IF Has(events', "RESET", id)
             THEN [dev EXCEPT !.commanded = 0,
                              !.pending = now + PulsePendingDelay]
             ELSE dev

\* C25 (as claimed): in a sweep, for a device whose status differs from
\* commanded: if pending > now and the device is detected, one RETRY event
\* is logged and a CONTROL frame carrying commanded is staged; if
\* 0 < pending <= now, a TIMEOUT event is logged, the socket is closed,
\* commanded becomes status and pending 0.  There is no TIMEOUT while
\* pending > now or while status = commanded.
C25_RetryOrTimeout ==
    [][\A id \in DeviceIds :
          (Known(id) /\ Sweep) =>
             LET dev == AtReconcile(id)
                 after == RowAfter(id)
             IN  /\ (/\ dev.status # dev.commanded
                     /\ dev.pending > now
                     /\ dev.detected # 0) =>
                        /\ Count(events', "RETRY", id) = 1
                        /\ Staged(frames', id, ControlFrame(dev.commanded))
                 /\ (/\ dev.status # dev.commanded
                     /\ dev.pending > 0
                     /\ dev.pending <= now) =>
                        /\ Count(events', "TIMEOUT", id) = 1
                        /\ after.socket = -1
                        /\ after.commanded = dev.status
                        /\ after.pending = 0
                 /\ Has(events', "TIMEOUT", id) =>
                        /\ dev.pending <= now
                        /\ dev.status # dev.commanded]_vars

\* C25 (amended): as above, but the CONTROL frame of a RETRY is staged exactly
\* when the connection to the device opens; the RETRY event is logged either
\* way, and only in that case.
C25_RetryIfConnectedOrTimeout ==
    [][\A id \in DeviceIds :
          (Known(id) /\ Sweep) =>
             LET dev == AtReconcile(id)
                 after == RowAfter(id)
                 retry == /\ dev.status # dev.commanded
                          /\ dev.pending > now
                          /\ dev.detected # 0
             IN  /\ Count(events', "RETRY", id) = (IF retry THEN 1 ELSE 0)
                 /\ retry =>
                        (Staged(frames', id, ControlFrame(dev.commanded))
                            <=> after.socket >= 0)
                 /\ (/\ dev.status # dev.commanded
                     /\ dev.pending > 0
                     /\ dev.pending <= now) =>
                        /\ Count(events', "TIMEOUT", id) = 1
                        /\ after.socket = -1
                        /\ after.commanded = dev.status
                        /\ after.pending = 0
                 /\ Has(events', "TIMEOUT", id) =>
                        /\ dev.pending <= now
                        /\ dev.status # dev.commanded]_vars

\* A sweep has retried the command of a device and staged the frame.
C25_Witness ==
    \E id \in DeviceIds :
        /\ Known(id)
        /\ LastRetry = now
        /\ Has(events, "RETRY", id)
        /\ Staged(frames, id, ControlFrame(Row(id).commanded))
        /\ Row(id).pending > now

\* C26: in a sweep the steps for a device run in the order sense, silence
\* detection, pulse expiry, reconciliation: a device declared SILENT in a
\* sweep gets no RESET, RETRY or TIMEOUT event and no CONTROL frame in that
\* sweep, even if its pulse deadline or its pending deadline is reached; a
\* QUERY of that sweep is staged before the SILENT event's close, and the
\* RESET of a pulse comes before the RETRY it leads to.
Before(evs, kind1, kind2, id) ==
    \A a, b \in 1..Len(evs) :
        (evs[a] = <<kind1, id>> /\ evs[b] = <<kind2, id>>) => a < b

C26_SweepOrder ==
    [][\A id \in DeviceIds :
          (Known(id) /\ Sweep) =>
             /\ Has(events', "SILENT", id) =>
                   /\ ~Has(events', "RESET", id)
                   /\ ~Has(events', "RETRY", id)
                   /\ ~Has(events', "TIMEOUT", id)
                   /\ ~StagedControl(frames', id)
                   /\ RowAfter(id).socket = -1
             /\ Before(events', "RESET", "RETRY", id)
             /\ Before(events', "RESET", "TIMEOUT", id)]_vars

\* A sweep has declared SILENT a device whose pulse deadline was reached.
C26_Witness ==
    \E id \in DeviceIds :
        /\ Known(id)
        /\ LastRetry = now
        /\ Has(events, "SILENT", id)
        /\ lastSet[id].valid
        /\ lastSet[id].until > 0
        /\ lastSet[id].until <= now
        /\ ~pulseEnded[id]

\* C27 (as claimed): a sweep marks silent every detected device that has not
\* been observed for 100 seconds or more, the age of exactly 100 seconds
\* included.
C27_SilentAtHundred ==
    [][\A id \in DeviceIds :
          (/\ Known(id)
           /\ Sweep
           /\ Row(id).detected > 0
           /\ now - Row(id).detected >= SilenceDelay) =>
             /\ Has(events', "SILENT", id)
             /\ RowAfter(id).detected = 0]_vars

\* C30 (as claimed): a datagram is ignored entirely (no row created, no field
\* of any row changed) unless its JSON payload carries gwId, productKey and
\* version, each as a string; one that does and whose id is unknown creates
\* exactly one new row, named new_<device count before>.
WellFormed(payload) ==
    /\ payload.text = "json"
    /\ payload.gwId.type = "string"
    /\ payload.productKey.type = "string"
    /\ payload.version.type = "string"

C30_BeaconNeedsStrings ==
    [][\A payload \in Datagrams :
          Datagram(payload) =>
             IF WellFormed(payload)
             THEN ~Known(payload.gwId.string) =>
                     /\ Len(Devices') = Len(Devices) + 1
                     /\ SubSeq(Devices', 1, Len(Devices)) = Devices
                     /\ Devices'[Len(Devices')].name = AutoName(Len(Devices))
                     /\ Devices'[Len(Devices')].id = payload.gwId.string
             ELSE Devices' = Devices /\ ~crashed']_vars

\* C31 (as claimed): loading or refreshing the configuration (a POST to
\* /tuya/config, a delivery from the depot) never raises the device list's
\* changed flag; only what a beacon changes does, and the background tick
\* clears it.
ConfigStep ==
    \/ \E doc \in Posted, valid \in BOOLEAN : housetuya_config(doc, valid)
    \/ \E doc \in Documents, valid \in BOOLEAN :
          housetuya_config_listener(doc, valid)

C31_ConfigKeepsChangedFlag ==
    [][/\ ConfigStep => DeviceListChanged' = DeviceListChanged
       /\ housetuya_background({TRUE}) => ~DeviceListChanged']_vars

\* C32 (as claimed): a configuration refresh leaves status, commanded,
\* pending, deadline and the open socket of every device that was already
\* known as they were.
C32_RefreshKeepsCommands ==
    [][\A doc \in Documents :
          housetuya_config(doc, TRUE) =>
             \A j \in Dev(Devices) :
                /\ Devices'[j].status = Devices[j].status
                /\ Devices'[j].commanded = Devices[j].commanded
                /\ Devices'[j].pending = Devices[j].pending
                /\ Devices'[j].deadline = Devices[j].deadline
                /\ Devices'[j].socket = Devices[j].socket]_vars

\* C33 (as claimed): the CRC written into an outbound frame is computed over
\* all the bytes between the 4-byte prefix and the CRC field: the sequence
\* number, the command, the length, the extended header when there is one,
\* and the payload.
CrcField(frame) == SubSeq(frame, Len(frame) - 7, Len(frame) - 4)

C33_CrcCoversHeader ==
    codec.stage = "frame" =>
        CrcField(codec.frame)
            = housetuya_crc(SubSeq(codec.frame, 5, Len(codec.frame) - 8))

\* C34 (as claimed): the decoder returns 0 for every structurally invalid
\* input (wrong prefix, wrong suffix, a length field that is not the
\* received length - 16, a frame too short to hold a payload), with or
\* without a secret; otherwise it returns the positive length of the payload
\* and has written code and sequence; it never returns a negative length.
C34_DecoderLengths ==
    codec.stage = "extracted" =>
        LET r == codec.result
        IN  /\ ~codec.crash
            /\ r.length >= 0
            /\ codec.variant # "intact" => r.length = 0
            /\ codec.variant = "intact" =>
                  /\ r.length > 0
                  /\ r.written
                  /\ r.code = codec.command.code
                  /\ r.sequence = codec.command.sequence

\* C35: in every reachable state a device whose status differs from its
\* commanded state has a pending deadline armed (pending # 0).
C35_DivergenceIsPending ==
    \A i \in Dev(Devices) :
        Devices[i].status # Devices[i].commanded => Devices[i].pending # 0

\* A pulse has ended on a device that is still on: status and commanded
\* differ and the deadline of the switch-off is armed.
C35_Witness ==
    \E id \in DeviceIds :
        /\ Known(id)
        /\ pulseEnded[id]
        /\ Row(id).status = 1
        /\ Row(id).commanded = 0
        /\ Row(id).pending > 0

\* C39: in every reachable state a device that is not detected (detected = 0)
\* has status 0.
C39_UndetectedIsOff ==
    \A i \in Dev(Devices) : Devices[i].detected = 0 => Devices[i].status = 0

\* A device that was observed on went silent: the sweep declared it SILENT
\* and its row is undetected and off.
C39_Witness ==
    \E id \in DeviceIds :
        /\ Known(id)
        /\ Has(events, "SILENT", id)
        /\ silenced[id]
        /\ actual[id] = 1
        /\ Row(id).detected = 0
        /\ Row(id).status = 0

\* C36 (as claimed): when a set request changes commanded to a state other
\* than the status, on a device that is detected, has an address and a dps
\* and accepts connections, a CONTROL frame carrying that state is staged, by
\* the request or by a later sweep, before the sweep gives up with TIMEOUT.
Owed(id) ==
    /\ Known(id)
    /\ lastSet[id].valid
    /\ lastSet[id].eligible
    /\ ~lastSet[id].sent
    /\ ~pulseEnded[id]
    /\ Row(id).commanded = lastSet[id].state

C36_ControlBeforeTimeout ==
    [][\A id \in DeviceIds :
          (Owed(id) /\ Has(events', "TIMEOUT", id)) =>
             Staged(frames', id, ControlFrame(lastSet[id].state))]_vars

\* C37 (as claimed): when a second set request changed commanded while the
\* command of the first was pending, a status report that matches the first,
\* superseded state leaves commanded at the state of the latest request.
Reported(obs, id, status) ==
    \E k \in 1..Len(obs) : obs[k] = <<id, status>>

C37_LateReportKeepsCommand ==
    [][\A id \in DeviceIds :
          (/\ Known(id)
           /\ lastSet[id].valid
           /\ lastSet[id].over >= 0
           /\ ~pulseEnded[id]
           /\ Row(id).commanded = lastSet[id].state
           /\ Reported(observed', id, lastSet[id].over)) =>
             RowAfter(id).commanded = lastSet[id].state]_vars

\* C40 (as claimed): whenever the content of the status document changes
\* (a state, a command or a pulse, through a set request, a status report,
\* silence, the end of a pulse or a timeout), the "latest" value changes too,
\* so that a status request presenting the value it was given before is not
\* answered 304 while the document differs.
Content(dev) == [StatusPoint(dev) EXCEPT !.name = ""]

C40_LatestFollowsDocument ==
    [][\A id \in DeviceIds :
          (/\ Known(id)
           /\ KnownAfter(id)
           /\ Content(RowAfter(id)) # Content(Row(id))) =>
             LiveState' # LiveState]_vars

\* C38 (as claimed): sensing is never starved.  For a device with a known
\* address and a resolvable dps that keeps sending beacons, from any state
\* after which no set request arrives (and from which three sense periods
\* are still to pass), a QUERY frame is eventually staged for it by the
\* sweep.
Sensible(id) ==
    /\ Known(id)
    /\ Row(id).ipaddress # 0
    /\ ResolvedControl(Row(id)) > 0
    /\ used.inputs = MaxInputs
    /\ used.ticks = 0
StagedQuery(fr, id) ==
    \E k \in 1..Len(fr) : fr[k][1] = id /\ fr[k][2].code = TUYA_QUERY

Starved(dev) ==
    dev.pending # 0 /\ dev.status = dev.commanded /\ dev.deadline = 0

StarvedStaysStarved ==
    [][\A id \in DeviceIds :
          (Known(id) /\ Starved(Row(id))) =>
             /\ ~StagedQuery(frames', id)
             /\ \/ Starved(RowAfter(id))
                \/ Has(events', "SET", id)
                \/ Has(events', "SILENT", id)
                \/ Has(events', "CHANGED", id)]_vars

====
